---- MODULE Spec2Model ----
(***************************************************************************)
(* A model of the stdio JSON-RPC client of utils/mcp_connection.py         *)
(* (MCPClient and detect_authentication_error) and of the tool layer's     *)
(* is_authentication_error (utils/xero_tools.py).                          *)
(*                                                                         *)
(* One MCPClient object, used by a single caller, talks to a child process *)
(* that may write any line to its output at any time and may exit at any   *)
(* time.  A text is a sequence of one-character strings, so that lower()   *)
(* and the substring test of Python's "in" are computed, not assumed.      *)
(***************************************************************************)
EXTENDS Integers, Sequences, FiniteSets, TLC

\* ------------------------------------------------------------------ bounds
\* request ids are capped: no new request is issued once _request_id = MaxId
MaxId == 3
\* capacity of the child's output pipe, in unread lines
MaxPipe == 1
\* the call's timeout, in clock ticks (deadline = time of the write + Timeout)
Timeout == 2
\* the lines of an .env file
MaxLines == 2
\* the runs of the token generator on one .env file
MaxRuns == 2
\* the largest months_back a function of the tool layer is called with
MaxMonths == 13
\* the calls of one function of the tool layer that the server or the child fails
MaxFaults == 1

\* ------------------------------------------------------------------- texts
UpperLetters == <<"A","B","C","D","E","F","G","H","I","J","K","L","M","N","O","P","Q","R","S","T","U","V","W","X","Y","Z">>
LowerLetters == <<"a","b","c","d","e","f","g","h","i","j","k","l","m","n","o","p","q","r","s","t","u","v","w","x","y","z">>

\* str.lower() on one character
LowerChar(c) ==
    IF \E i \in 1..Len(UpperLetters) : UpperLetters[i] = c
    THEN LowerLetters[CHOOSE i \in 1..Len(UpperLetters) : UpperLetters[i] = c]
    ELSE c

UpperChar(c) ==
    IF \E i \in 1..Len(LowerLetters) : LowerLetters[i] = c
    THEN UpperLetters[CHOOSE i \in 1..Len(LowerLetters) : LowerLetters[i] = c]
    ELSE c

\* str.lower()
lower(s) == [i \in 1..Len(s) |-> LowerChar(s[i])]

\* Python's  needle in hay  on strings
Contains(hay, needle) ==
    \E i \in 0..(Len(hay) - Len(needle)) :
        SubSeq(hay, i + 1, i + Len(needle)) = needle

\* the list of detect_authentication_error (the transport's Sentinel)
auth_indicators ==
    << <<"s","t","a","t","u","s"," ","c","o","d","e"," ","4","0","1">>,
       <<"s","t","a","t","u","s"," ","c","o","d","e"," ","4","0","3">>,
       <<"u","n","a","u","t","h","o","r","i","z","e","d">>,
       <<"f","o","r","b","i","d","d","e","n">>,
       <<"a","u","t","h","e","n","t","i","c","a","t","i","o","n"," ","f","a","i","l","e","d">>,
       <<"i","n","v","a","l","i","d"," ","t","o","k","e","n">>,
       <<"t","o","k","e","n"," ","e","x","p","i","r","e","d">>,
       <<"a","c","c","e","s","s"," ","d","e","n","i","e","d">> >>
\* the list of is_authentication_error (the tool layer)
tool_auth_indicators ==
    << <<"s","t","a","t","u","s"," ","c","o","d","e"," ","4","0","1">>,
       <<"s","t","a","t","u","s"," ","c","o","d","e"," ","4","0","3">>,
       <<"u","n","a","u","t","h","o","r","i","z","e","d">>,
       <<"f","o","r","b","i","d","d","e","n">>,
       <<"a","u","t","h","e","n","t","i","c","a","t","i","o","n"," ","f","a","i","l","e","d">>,
       <<"i","n","v","a","l","i","d"," ","t","o","k","e","n">>,
       <<"t","o","k","e","n"," ","e","x","p","i","r","e","d">>,
       <<"a","c","c","e","s","s"," ","d","e","n","i","e","d">>,
       <<"t","o","k","e","n"," ","h","a","s"," ","e","x","p","i","r","e","d">>,
       <<"i","n","v","a","l","i","d"," ","b","e","a","r","e","r"," ","t","o","k","e","n">> >>
\* any(indicator in text_lower for indicator in auth_indicators)
detect_authentication_error(response_text) ==
    LET text_lower == lower(response_text)
    IN  \E k \in 1..Len(auth_indicators) : Contains(text_lower, auth_indicators[k])

\* if not error_message: return False; then the same test on the longer list
is_authentication_error(error_message) ==
    IF error_message = <<>>
    THEN FALSE
    ELSE LET error_lower == lower(error_message)
         IN  \E k \in 1..Len(tool_auth_indicators) :
                 Contains(error_lower, tool_auth_indicators[k])

\* messages and content texts a server sends (the dash of the first stands
\* for the one of the specification's example)
MsgInvalidBearer401 == <<"I","n","v","a","l","i","d"," ","b","e","a","r","e","r"," ","t","o","k","e","n"," ","-"," ","s","t","a","t","u","s"," ","c","o","d","e"," ","4","0","1">>

MsgForbidden == <<"R","e","q","u","e","s","t"," ","f","a","i","l","e","d",":"," ","F","o","r","b","i","d","d","e","n">>

MsgTokenHasExpired == <<"T","o","k","e","n"," ","h","a","s"," ","e","x","p","i","r","e","d">>

MsgInvalidBearer == <<"I","n","v","a","l","i","d"," ","b","e","a","r","e","r"," ","t","o","k","e","n">>

MsgRateLimit == <<"R","a","t","e"," ","l","i","m","i","t"," ","e","x","c","e","e","d","e","d">>

MsgOk == <<"o","k">>

PrefixError == <<"E","r","r","o","r",":"," ">>

SuffixCode == <<" ","(","c","o","d","e"," ","7",")">>

\* ------------------------------------------------------------------- lines
\* One line of the child's output.  kind: "malformed" (not JSON), "blank"
\* (only white space), "nondict" (JSON, but no object: response.get raises),
\* "json" (an object with an id).  error: "absent", "object" ({code, message})
\* or "malformed" (the error member is no object, or its message no string).
NoLine == [kind |-> "none", id |-> 0, error |-> "absent", message |-> <<>>, content |-> <<>>]

NoiseLine(k) == [kind |-> k, id |-> 0, error |-> "absent", message |-> <<>>, content |-> <<>>]

ResultLine(i, c) == [kind |-> "json", id |-> i, error |-> "absent", message |-> <<>>, content |-> c]

ErrorLine(i, m) == [kind |-> "json", id |-> i, error |-> "object", message |-> m, content |-> <<>>]

BadErrorLine(i) == [kind |-> "json", id |-> i, error |-> "malformed", message |-> <<>>, content |-> <<>>]

\* a content block: a dict with a "text" member, or something else (an image
\* block without text, a bare string)
TextBlock(t) == [isDict |-> TRUE, hasText |-> TRUE, text |-> t]

OtherBlock == [isDict |-> TRUE, hasText |-> FALSE, text |-> <<>>]

Contents ==
    { <<TextBlock(MsgOk)>>,
      <<OtherBlock, TextBlock(MsgOk), TextBlock(MsgForbidden)>>,
      <<TextBlock(MsgTokenHasExpired)>> }

ErrorMessages == {MsgInvalidBearer401, MsgInvalidBearer, MsgRateLimit}

Ids == 1..MaxId

\* everything the child may write
Lines ==
    {NoiseLine(k) : k \in {"malformed", "blank", "nondict"}}
    \cup {ResultLine(i, c) : i \in Ids, c \in Contents}
    \cup {ErrorLine(i, m) : i \in Ids, m \in ErrorMessages}
    \cup {BadErrorLine(i) : i \in Ids}

\* ------------------------------------------------------------------- state
VARIABLES
    proc,                   \* self.proc and the child: "None", "alive", "exited"
    request_id,             \* self._request_id
    initialized,            \* self._initialized
    authentication_failed,  \* self._authentication_failed
    pc,                     \* the caller: "idle", "loop" (at the while test), "readline"
    op,                     \* the operation whose _rpc is running
    clock,                  \* time since the request was written, in ticks
    stdout,                 \* unread lines of the child's output pipe
    written,                \* the id of every request written to a child's stdin, in order
    result,                 \* how the last operation ended
    text,                   \* the Sentinel check: the text under test
    detected,               \* the Sentinel check: the two verdicts
    callers,                \* two callers on one session: each caller's _rpc frame
    answered,               \* two callers: how many written requests the server has answered
    env_file,               \* token generator: the .env file on disk
    tmp_file,               \* token generator: the temporary file of write_env_atomic
    backup_file,            \* token generator: the backup file of write_env_atomic
    env_lines,              \* token generator: the lines read from the .env
    post_preserve,          \* token generator: the lines after ensure_preserved_keys
    final_lines,            \* token generator: the lines after inject_token_block
    access_token,           \* token generator: the token of this run
    perm,                   \* token generator: perm of write_env_atomic
    tg_pc,                  \* token generator: the statement main() is at
    runs,                   \* token generator: the runs of the program so far
    tl_op,                  \* tool layer: the function that is running
    tl_pc,                  \* tool layer: the statement it is at
    today,                  \* tool layer: date.today()
    months_back,            \* tool layer: the argument months_back
    loop_i,                 \* tool layer: the loop variable i
    calls,                  \* tool layer: the client.call_tool calls of the function, in order
    results,                \* tool layer: the XeroToolResponse objects obtained, in order
    primary_error,          \* tool layer: str(e) of the primary call of get_organisation_details
    health_results,         \* tool layer: the dictionary of health_check
    pl_data_to_export,      \* tool layer: the list of the same name
    export_file,            \* tool layer: the periods in the combined export file, if written
    tl_result,              \* tool layer: how the function ended
    faults                  \* tool layer: the calls of this function that the server or the child failed

clientVars == <<proc, request_id, initialized, authentication_failed, pc, op, clock,
                stdout, written, result, text, detected>>

envVars == <<env_file, tmp_file, backup_file, env_lines, post_preserve, final_lines,
             access_token, perm, tg_pc, runs>>

vars == <<proc, request_id, initialized, authentication_failed, pc, op, clock,
          stdout, written, result, text, detected, callers, answered,
          env_file, tmp_file, backup_file, env_lines, post_preserve, final_lines,
          access_token, perm, tg_pc, runs,
          tl_op, tl_pc, today, months_back, loop_i, calls, results, primary_error,
          health_results, pl_data_to_export, export_file, tl_result, faults>>

toolVars == <<tl_op, tl_pc, today, months_back, loop_i, calls, results, primary_error,
              health_results, pl_data_to_export, export_file, tl_result, faults>>

sentinelVars == <<text, detected>>

callerVars == <<callers, answered>>

\* what the single-caller session leaves alone: the state of the other
\* developments of this module
layerVars == <<callerVars, envVars, toolVars>>

\* how an operation ended: its kind ("returned" or the exception raised), the
\* line its _rpc resolved with, and the sorts of lines that _rpc skipped
\* closing is what a close() run by the operation called, in order, and pipes
\* the state of the three pipes of the handle it dropped ("none": no close ran)
ResClosed(o, k, l, s, c, p) ==
    [op |-> o, kind |-> k, response |-> l, skipped |-> s, closing |-> c, pipes |-> p]

Res(o, k, l, s) == ResClosed(o, k, l, s, <<>>, "none")

NoVerdict == [transport |-> "none", tool |-> "none"]

\* the method an operation passes to _rpc: start() the handshake, call_tool
\* and list_tools theirs; a bare _rpc whatever its caller names
rpc_method(o) ==
    IF o = "start" THEN "initialize"
    ELSE IF o = "call_tool" THEN "tools/call"
    ELSE IF o = "list_tools" THEN "tools/list"
    ELSE "any"

\* the members of the params it passes (params or {} in _rpc)
rpc_params(o) ==
    IF o = "start" THEN {"protocolVersion", "capabilities", "clientInfo"}
    ELSE IF o = "call_tool" THEN {"name", "arguments"}
    ELSE {}

\* the request object _rpc writes for operation o once the id rid is taken
rpc_request(o, rid) ==
    [jsonrpc |-> "2.0", id |-> rid, method |-> rpc_method(o), params |-> rpc_params(o)]


\* ------------------------------------------------ two callers, one session
Callers == {"A", "B"}

\* the frame of a caller's _rpc: where it is, the counter value it loaded for
\* the increment, the id of the request it wrote, its deadline, the line it
\* has just read, and how it ended (kind, and the id of the response it got)
NoFrame ==
    [pc |-> "idle", loaded |-> 0, sent |-> 0, deadline |-> 0, line |-> NoLine,
     kind |-> "none", got |-> 0]

CallersIdle ==
    /\ callers = [c \in Callers |-> NoFrame]
    /\ answered = 0

\* None where a text is expected (no text has an element of several characters)
NoValue == <<"None">>

\* None where a file mode is expected
NoPerm == "None"

\* a file that does not exist
Absent == [exists |-> FALSE]

\* the token generator is not running and there are no files
EnvIdle ==
    /\ env_file = Absent
    /\ tmp_file = Absent
    /\ backup_file = Absent
    /\ env_lines = <<>>
    /\ post_preserve = <<>>
    /\ final_lines = <<>>
    /\ access_token = <<>>
    /\ perm = NoPerm
    /\ tg_pc = "off"
    /\ runs = 0

\* a date
Date(y, m, d) == [year |-> y, month |-> m, day |-> d]

\* the health_results of line 678
NoHealth ==
    [overall_status |-> "unknown", tests |-> <<>>, authentication_status |-> "unknown"]

\* no function of the tool layer is running
ToolIdle ==
    /\ tl_op = "none"
    /\ tl_pc = "idle"
    /\ today = Date(2024, 1, 1)
    /\ months_back = 0
    /\ loop_i = 0
    /\ calls = <<>>
    /\ results = <<>>
    /\ primary_error = <<>>
    /\ health_results = NoHealth
    /\ pl_data_to_export = <<>>
    /\ export_file = NoValue
    /\ tl_result = "none"
    /\ faults = 0

LayerIdle == CallersIdle /\ EnvIdle /\ ToolIdle

\* the MCPClient object after construction
ClientIdle ==
    /\ proc = "None"
    /\ request_id = 0
    /\ initialized = FALSE
    /\ authentication_failed = FALSE
    /\ pc = "idle"
    /\ op = "none"
    /\ clock = 0
    /\ stdout = <<>>
    /\ written = <<>>
    /\ result = Res("none", "none", NoLine, {})
    /\ text = <<>>
    /\ detected = NoVerdict

Init ==
    /\ ClientIdle
    /\ LayerIdle

\* -------------------------------------------------------------- operations
\* a call_tool that takes every text block for an authentication failure
ContentHasAuthAnyText(content) ==
    \E k \in 1..Len(content) : content[k].isDict /\ content[k].hasText

\* the scan of call_tool over result.content
ContentHasAuth(content) ==
    \E k \in 1..Len(content) :
        /\ content[k].isDict
        /\ content[k].hasText
        /\ detect_authentication_error(content[k].text)

\* a close() that ends the child with kill() at once
ClosePathsKillFirst(child) == {<<"kill", "wait_ok">>, <<"kill", "wait_timeout">>}

\* The runs of close() on a held handle, as the calls it makes and how each
\* ends: terminate() first; wait(timeout=5); only on TimeoutExpired kill() and
\* wait(timeout=2).  A call that raises ends the run (except Exception).  On a
\* child that has already exited terminate() sends nothing and wait() returns.
ClosePaths(child) ==
    IF child = "exited"
    THEN {<<"terminate", "wait_ok">>}
    ELSE { <<"terminate_raises">>,
           <<"terminate", "wait_ok">>,
           <<"terminate", "wait_raises">>,
           <<"terminate", "wait_timeout", "kill_raises">>,
           <<"terminate", "wait_timeout", "kill", "wait_ok">>,
           <<"terminate", "wait_timeout", "kill", "wait_timeout">> }

\* close() closes no pipe itself.  Dropping the handle leaves them to the
\* runtime: a Popen object whose child was reaped (a wait() returned) is freed
\* and its pipes with it; one whose child was not reaped is kept alive by the
\* subprocess module, its pipes open.
PipesAfter(c) == IF c[Len(c)] = "wait_ok" THEN "closed" ELSE "open"

\* a close() that lets the exception of terminate, wait or kill through
close_kind_raising(c) ==
    IF c[Len(c)] = "wait_ok" THEN "returned" ELSE "Exception"

\* except Exception: logged, never raised
close_kind(c) == "returned"

\* a close() without its finally clause for the handle
close_keeps_proc == proc

\* close(): the handle is dropped and initialized reset, whatever terminate,
\* wait and kill did; authentication_failed and _request_id are not touched
close_proc == "None"

\* a close() that leaves _initialized as it is
close_leaves_initialized == initialized

close_initialized == FALSE

\* a close() that clears the latch
close_resets_flag(flag) == FALSE

close_authentication_failed(flag) == flag

\* a close() that restarts the id counter
close_resets_request_id(rid) == 0

close_request_id(rid) == rid

\* a start() that lets the error of its handshake through as it is
start_error_kind_unwrapped(k) == k

\* except Exception as e: self.close(); raise MCPConnectionError(...) from e
start_error_kind(k) == "MCPConnectionError"

\* What an operation does with the outcome of its _rpc (kind k, the line l it
\* resolved with, out = what is left unread): start() sets initialized or
\* closes and raises MCPConnectionError; call_tool scans the content and keeps
\* the latch; list_tools and a bare _rpc pass the outcome on.
Finish(o, k, l, out) ==
    LET flag == authentication_failed \/ k = "MCPAuthenticationError"
    IN  /\ pc' = "idle"
        /\ op' = "none"
        /\ clock' = 0
        /\ IF o = "start"
           THEN IF k = "returned"
                THEN /\ initialized' = TRUE
                     /\ authentication_failed' = flag
                     /\ proc' = proc
                     /\ stdout' = out
                     /\ result' = Res(o, "returned", l, result.skipped)
                ELSE /\ initialized' = close_initialized
                     /\ authentication_failed' = close_authentication_failed(flag)
                     /\ proc' = close_proc
                     /\ stdout' = <<>>
                     /\ \E c \in ClosePaths(proc) :
                            result' = ResClosed(o, start_error_kind(k), l,
                                                result.skipped, c, PipesAfter(c))
           ELSE /\ initialized' = initialized
                /\ proc' = proc
                /\ stdout' = out
                /\ IF o = "call_tool" /\ k = "returned" /\ ContentHasAuth(l.content)
                   THEN /\ authentication_failed' = TRUE
                        /\ result' = Res(o, "MCPAuthenticationError", l, result.skipped)
                   ELSE /\ authentication_failed' = flag
                        /\ result' = Res(o, k, l, result.skipped)

\* an operation that raises k before any I/O
Raise(o, k) ==
    /\ result' = Res(o, k, NoLine, {})
    /\ UNCHANGED <<proc, request_id, initialized, authentication_failed, pc, op,
                   clock, stdout, written>>

\* _rpc up to the write: no handle -> MCPConnectionError; else the id is
\* taken, and the write either fails (BrokenPipeError, the child is gone) or
\* the wait loop is entered with the deadline set.
RpcEnter(o) ==
    IF proc = "None"
    THEN Raise(o, "MCPConnectionError")
    ELSE /\ request_id < MaxId
         /\ request_id' = request_id + 1
         /\ IF proc = "exited"
            THEN /\ result' = Res(o, "MCPConnectionError", NoLine, {})
                 /\ UNCHANGED <<proc, initialized, authentication_failed, pc, op,
                                clock, stdout, written>>
            ELSE /\ written' = Append(written, request_id + 1)
                 /\ pc' = "loop"
                 /\ op' = o
                 /\ clock' = 0
                 /\ result' = Res(o, "pending", NoLine, {})
                 /\ UNCHANGED <<proc, initialized, authentication_failed, stdout>>

\* start(), its five ways: nothing is done if a handle is held; Popen fails;
\* the child is found dead after the grace sleep (the handle stays in place);
\* the child dies between the poll and the write of the handshake (broken
\* pipe, then close() and MCPConnectionError); the handshake is written.
Start ==
    /\ pc = "idle"
    /\ UNCHANGED sentinelVars
    /\ UNCHANGED layerVars
    /\ \/ /\ proc # "None"
          /\ result' = Res("start", "returned", NoLine, {})
          /\ UNCHANGED <<proc, request_id, initialized, authentication_failed, pc, op,
                         clock, stdout, written>>
       \/ /\ proc = "None"
          /\ Raise("start", "MCPConnectionError")
       \/ /\ proc = "None"
          /\ proc' = "exited"
          /\ stdout' = <<>>
          /\ result' = Res("start", "MCPConnectionError", NoLine, {})
          /\ UNCHANGED <<request_id, initialized, authentication_failed, pc, op,
                         clock, written>>
       \/ /\ proc = "None"
          /\ request_id < MaxId
          /\ request_id' = request_id + 1
          /\ \E c \in ClosePaths("exited") :
                 result' = ResClosed("start", start_error_kind("MCPConnectionError"),
                                     NoLine, {}, c, PipesAfter(c))
          /\ UNCHANGED <<proc, initialized, authentication_failed, pc, op, clock,
                         stdout, written>>
       \/ /\ proc = "None"
          /\ request_id < MaxId
          /\ request_id' = request_id + 1
          /\ written' = Append(written, request_id + 1)
          /\ proc' = "alive"
          /\ stdout' = <<>>
          /\ pc' = "loop"
          /\ op' = "start"
          /\ clock' = 0
          /\ result' = Res("start", "pending", NoLine, {})
          /\ UNCHANGED <<initialized, authentication_failed>>

Close ==
    /\ pc = "idle"
    /\ UNCHANGED sentinelVars
    /\ UNCHANGED layerVars
    /\ IF proc = "None"
       THEN /\ result' = Res("close", "returned", NoLine, {})
            /\ UNCHANGED <<proc, request_id, initialized, authentication_failed, pc,
                           op, clock, stdout, written>>
       ELSE /\ proc' = close_proc
            /\ initialized' = close_initialized
            /\ authentication_failed' = close_authentication_failed(authentication_failed)
            /\ request_id' = close_request_id(request_id)
            /\ stdout' = <<>>
            /\ \E c \in ClosePaths(proc) :
                   result' = ResClosed("close", close_kind(c), NoLine, {}, c, PipesAfter(c))
            /\ UNCHANGED <<pc, op, clock, written>>

\* a call_tool without the test of the latch
call_tool_guard_unlatched == IF ~initialized THEN "MCPConnectionError" ELSE "pass"

\* the guards of call_tool, in the order of the code
call_tool_guard ==
    IF ~initialized THEN "MCPConnectionError"
    ELSE IF authentication_failed THEN "MCPAuthenticationError"
    ELSE "pass"

\* a list_tools without the test of _initialized
list_tools_guard_open == "pass"

\* the guard of list_tools
list_tools_guard == IF ~initialized THEN "MCPConnectionError" ELSE "pass"

CallTool ==
    /\ pc = "idle"
    /\ UNCHANGED sentinelVars
    /\ UNCHANGED layerVars
    /\ IF call_tool_guard # "pass"
       THEN Raise("call_tool", call_tool_guard)
       ELSE RpcEnter("call_tool")

ListTools ==
    /\ pc = "idle"
    /\ UNCHANGED sentinelVars
    /\ UNCHANGED layerVars
    /\ IF list_tools_guard # "pass"
       THEN Raise("list_tools", list_tools_guard)
       ELSE RpcEnter("list_tools")

\* _rpc called on the object directly
Rpc ==
    /\ pc = "idle"
    /\ UNCHANGED sentinelVars
    /\ UNCHANGED layerVars
    /\ RpcEnter("rpc")

\* an _rpc whose deadline comes one tick early
LoopHeadEarlyTimeout ==
    /\ pc = "loop"
    /\ UNCHANGED sentinelVars
    /\ UNCHANGED layerVars
    /\ UNCHANGED <<request_id, written>>
    /\ IF clock >= Timeout - 1
       THEN Finish(op, "MCPTimeoutError", NoLine, stdout)
       ELSE IF proc = "exited"
            THEN Finish(op, "MCPConnectionError", NoLine, stdout)
            ELSE /\ pc' = "readline"
                 /\ UNCHANGED <<proc, initialized, authentication_failed, op, clock,
                                stdout, result>>

\* an _rpc whose loop does not poll the child
LoopHeadNoPoll ==
    /\ pc = "loop"
    /\ UNCHANGED sentinelVars
    /\ UNCHANGED layerVars
    /\ UNCHANGED <<request_id, written>>
    /\ IF clock >= Timeout
       THEN Finish(op, "MCPTimeoutError", NoLine, stdout)
       ELSE /\ pc' = "readline"
            /\ UNCHANGED <<proc, initialized, authentication_failed, op, clock,
                           stdout, result>>

\* an _rpc whose loop reads what is buffered before it looks at the child
LoopHeadReadsBuffered ==
    /\ pc = "loop"
    /\ UNCHANGED sentinelVars
    /\ UNCHANGED layerVars
    /\ UNCHANGED <<request_id, written>>
    /\ IF clock >= Timeout
       THEN Finish(op, "MCPTimeoutError", NoLine, stdout)
       ELSE IF proc = "exited" /\ stdout = <<>>
            THEN Finish(op, "MCPConnectionError", NoLine, stdout)
            ELSE /\ pc' = "readline"
                 /\ UNCHANGED <<proc, initialized, authentication_failed, op, clock,
                                stdout, result>>

\* while time.time() < deadline: if self.proc.poll() is not None: raise ...
LoopHead ==
    /\ pc = "loop"
    /\ UNCHANGED sentinelVars
    /\ UNCHANGED layerVars
    /\ UNCHANGED <<request_id, written>>
    /\ IF clock >= Timeout
       THEN Finish(op, "MCPTimeoutError", NoLine, stdout)
       ELSE IF proc = "exited"
            THEN Finish(op, "MCPConnectionError", NoLine, stdout)
            ELSE /\ pc' = "readline"
                 /\ UNCHANGED <<proc, initialized, authentication_failed, op, clock,
                                stdout, result>>

\* an _rpc that takes any response object for its own
is_any_response(response, rid) == response.kind = "json"

\* response.get("id") == self._request_id
is_our_response(response, rid) == response.id = rid

\* an _rpc without the handler of json.JSONDecodeError: a line that is not
\* JSON ends the call
DispatchNoDecodeHandler(line, rid) ==
    IF line.kind = "malformed" THEN "MCPServerError"
    ELSE IF line.kind # "json" THEN "continue"
    ELSE IF line.id # rid THEN "continue"
    ELSE IF line.error = "malformed" THEN "continue"
    ELSE IF line.error = "object"
         THEN IF detect_authentication_error(line.message)
              THEN "MCPAuthenticationError"
              ELSE "MCPServerError"
         ELSE "returned"

\* an _rpc that reports an error member it cannot take apart as a server error
DispatchBadErrorRaises(line, rid) ==
    IF line.kind # "json" THEN "continue"
    ELSE IF line.id # rid THEN "continue"
    ELSE IF line.error = "malformed" THEN "MCPServerError"
    ELSE IF line.error = "object"
         THEN IF detect_authentication_error(line.message)
              THEN "MCPAuthenticationError"
              ELSE "MCPServerError"
         ELSE "returned"

\* an _rpc that takes every error object for an authentication failure
DispatchErrorsAreAuth(line, rid) ==
    IF line.kind # "json" THEN "continue"
    ELSE IF line.id # rid THEN "continue"
    ELSE IF line.error = "malformed" THEN "continue"
    ELSE IF line.error = "object" THEN "MCPAuthenticationError"
    ELSE "returned"

\* what one line read by the loop leads to: "continue", or the way the call ends
Dispatch(line, rid) ==
    IF line.kind # "json" THEN "continue"
    ELSE IF ~is_our_response(line, rid) THEN "continue"
    ELSE IF line.error = "malformed" THEN "continue"
    ELSE IF line.error = "object"
         THEN IF detect_authentication_error(line.message)
              THEN "MCPAuthenticationError"
              ELSE "MCPServerError"
         ELSE "returned"

\* the sort of a line the loop skips: "late" is a response to an earlier
\* request (or a duplicate of one), "bad_error" is a line with the pending id
\* whose error member made the handling raise (told apart for call_tool,
\* noise for the other operations), "noise" is anything else
SkipKind(line, rid) ==
    IF line.kind = "json" /\ line.id < rid THEN "late"
    ELSE IF op = "call_tool" /\ line = BadErrorLine(rid) THEN "bad_error"
    ELSE "noise"

\* what is noted of a readline that returned end of file: that it did so
\* before the deadline, when it did
EofMark == IF clock < Timeout THEN {"eof_in_time"} ELSE {}

\* line = self.proc.stdout.readline(): blocks until a line or end of file
ReadLine ==
    /\ pc = "readline"
    /\ UNCHANGED sentinelVars
    /\ UNCHANGED layerVars
    /\ UNCHANGED <<request_id, written>>
    /\ IF stdout = <<>>
       THEN /\ proc = "exited"
            /\ pc' = "loop"
            /\ result' = [result EXCEPT !.skipped = @ \cup EofMark]
            /\ UNCHANGED <<proc, initialized, authentication_failed, op, clock, stdout>>
       ELSE LET line == Head(stdout)
                d == Dispatch(line, request_id)
            IN  IF d = "continue"
                THEN /\ pc' = "loop"
                     /\ stdout' = Tail(stdout)
                     /\ result' = [result EXCEPT !.skipped = @ \cup {SkipKind(line, request_id)}]
                     /\ UNCHANGED <<proc, initialized, authentication_failed, op, clock>>
                ELSE Finish(op, d, line, Tail(stdout))

\* time passes while a call waits
Tick ==
    /\ pc \in {"loop", "readline"}
    /\ clock < Timeout
    /\ clock' = clock + 1
    /\ UNCHANGED <<proc, request_id, initialized, authentication_failed, pc, op,
                   stdout, written, result, text, detected>>
    /\ UNCHANGED layerVars

\* The lines the child is let to write now.  A response whose id is below the
\* id of every pending or future request is only ever compared by id and
\* dropped, so one body stands for all bodies of such a line.
Writable ==
    LET live == IF pc = "idle" THEN request_id + 1 ELSE request_id
    IN  {l \in Lines : (l.kind = "json" /\ l.id < live) => l = ResultLine(l.id, <<TextBlock(MsgOk)>>)}

\* the child writes a line to its output
ChildWrite ==
    /\ proc = "alive"
    /\ Len(stdout) < MaxPipe
    /\ \E l \in Writable : stdout' = Append(stdout, l)
    /\ UNCHANGED <<proc, request_id, initialized, authentication_failed, pc, op,
                   clock, written, result, text, detected>>
    /\ UNCHANGED layerVars

\* the child exits
ChildExit ==
    /\ proc = "alive"
    /\ proc' = "exited"
    /\ UNCHANGED <<request_id, initialized, authentication_failed, pc, op,
                   clock, stdout, written, result, text, detected>>
    /\ UNCHANGED layerVars

Next ==
    \/ Start
    \/ Close
    \/ CallTool
    \/ ListTools
    \/ Rpc
    \/ LoopHead
    \/ ReadLine
    \/ Tick
    \/ ChildWrite
    \/ ChildExit

Spec == Init /\ [][Next]_vars

\* The caller's own steps are taken when they can be, and time passes; nothing
\* is assumed of the child.
FairSpec ==
    /\ Spec
    /\ WF_vars(LoopHead)
    /\ WF_vars(ReadLine)
    /\ WF_vars(Tick)

\* ------------------------------------------------- the Sentinel on its own
\* the letter cases a signature is tried in
Capitalised(s) == [i \in 1..Len(s) |-> IF i = 1 THEN UpperChar(s[i]) ELSE s[i]]

Alternating(s) == [i \in 1..Len(s) |-> IF i % 2 = 0 THEN UpperChar(s[i]) ELSE s[i]]

AllUpper(s) == [i \in 1..Len(s) |-> UpperChar(s[i])]

CaseVariants(s) == {s, AllUpper(s), Capitalised(s), Alternating(s)}

\* the texts the two detectors are run on: every signature of either list, in
\* four letter cases, alone or inside a longer text; and texts without one
TextInputs ==
    { p \o v \o q :
        p \in {<<>>, PrefixError},
        v \in UNION {CaseVariants(tool_auth_indicators[k]) : k \in 1..Len(tool_auth_indicators)},
        q \in {<<>>, SuffixCode} }
    \cup {<<>>, MsgOk, MsgRateLimit, MsgForbidden, MsgInvalidBearer401, PrefixError \o SuffixCode}

Verdict(b) == IF b THEN "auth" ELSE "clean"

SentinelInit ==
    /\ proc = "None"
    /\ request_id = 0
    /\ initialized = FALSE
    /\ authentication_failed = FALSE
    /\ pc = "idle"
    /\ op = "none"
    /\ clock = 0
    /\ stdout = <<>>
    /\ written = <<>>
    /\ result = Res("none", "none", NoLine, {})
    /\ text \in TextInputs
    /\ detected = NoVerdict
    /\ LayerIdle

\* both detectors are run on the text
Detect ==
    /\ detected = NoVerdict
    /\ detected' = [transport |-> Verdict(detect_authentication_error(text)),
                    tool |-> Verdict(is_authentication_error(text))]
    /\ UNCHANGED <<proc, request_id, initialized, authentication_failed, pc, op,
                   clock, stdout, written, result, text>>
    /\ UNCHANGED layerVars

SentinelNext == Detect

SentinelSpec == SentinelInit /\ [][SentinelNext]_vars

\* ------------------------------------- two callers on one session (_rpc)
\* Two logical callers run _rpc on the same started MCPClient with nothing to
\* keep them apart.  Each statement of _rpc that reads or writes the shared
\* object is a step of its own; the server answers every request it receives,
\* once, in the order received.
ConcInit ==
    /\ proc = "alive"
    /\ request_id = 1
    /\ initialized = TRUE
    /\ authentication_failed = FALSE
    /\ pc = "idle"
    /\ op = "none"
    /\ clock = 0
    /\ stdout = <<>>
    /\ written = <<1>>
    /\ result = Res("start", "returned", ResultLine(1, <<TextBlock(MsgOk)>>), {})
    /\ text = <<>>
    /\ detected = NoVerdict
    /\ callers = [c \in Callers |-> NoFrame]
    /\ answered = 1
    /\ EnvIdle
    /\ ToolIdle

\* what a caller's step leaves alone
callerFrame == <<initialized, authentication_failed, pc, op, result, text, detected, envVars, toolVars>>

\* how a caller's _rpc ends: kind k, g the id of the response returned (0: none)
CallerEnds(c, k, g) ==
    callers' = [callers EXCEPT ![c].pc = "done", ![c].line = NoLine,
                               ![c].kind = k, ![c].got = g]

\* the guard of _rpc, then the load of  self._request_id += 1
CallerLoad(c) ==
    /\ callers[c].pc = "idle"
    /\ proc # "None"
    /\ callers' = [callers EXCEPT ![c].pc = "store", ![c].loaded = request_id]
    /\ UNCHANGED <<proc, request_id, clock, stdout, written, answered>>
    /\ UNCHANGED callerFrame

\* the store of  self._request_id += 1
CallerStore(c) ==
    /\ callers[c].pc = "store"
    /\ callers[c].loaded < MaxId
    /\ request_id' = callers[c].loaded + 1
    /\ callers' = [callers EXCEPT ![c].pc = "write"]
    /\ UNCHANGED <<proc, clock, stdout, written, answered>>
    /\ UNCHANGED callerFrame

\* the request is built with "id": self._request_id, the counter as it is
\* now, and written; the deadline is set
CallerWrite(c) ==
    /\ callers[c].pc = "write"
    /\ IF proc = "exited"
       THEN /\ CallerEnds(c, "MCPConnectionError", 0)
            /\ UNCHANGED written
       ELSE /\ written' = Append(written, rpc_request("rpc", request_id).id)
            /\ callers' = [callers EXCEPT ![c].pc = "loop",
                                          ![c].sent = rpc_request("rpc", request_id).id,
                                          ![c].deadline = clock + Timeout]
    /\ UNCHANGED <<proc, request_id, clock, stdout, answered>>
    /\ UNCHANGED callerFrame

\* while time.time() < deadline: if self.proc.poll() is not None: raise ...
CallerLoopHead(c) ==
    /\ callers[c].pc = "loop"
    /\ IF clock >= callers[c].deadline
       THEN CallerEnds(c, "MCPTimeoutError", 0)
       ELSE IF proc = "exited"
            THEN CallerEnds(c, "MCPConnectionError", 0)
            ELSE callers' = [callers EXCEPT ![c].pc = "readline"]
    /\ UNCHANGED <<proc, request_id, clock, stdout, written, answered>>
    /\ UNCHANGED callerFrame

\* line = self.proc.stdout.readline(): the caller that gets the line takes it
\* out of the pipe
CallerReadLine(c) ==
    /\ callers[c].pc = "readline"
    /\ IF stdout = <<>>
       THEN /\ proc = "exited"
            /\ callers' = [callers EXCEPT ![c].pc = "loop"]
            /\ UNCHANGED stdout
       ELSE /\ callers' = [callers EXCEPT ![c].pc = "compare", ![c].line = Head(stdout)]
            /\ stdout' = Tail(stdout)
    /\ UNCHANGED <<proc, request_id, clock, written, answered>>
    /\ UNCHANGED callerFrame

\* a caller that compares with the id of the request it wrote
pending_id_own(c) == callers[c].sent

\* response.get("id") == self._request_id: the id a caller compares a line
\* with is the session's counter as it is at the comparison
pending_id(c) == request_id

\* the line is parsed and compared
CallerCompare(c) ==
    /\ callers[c].pc = "compare"
    /\ LET line == callers[c].line
           d == Dispatch(line, pending_id(c))
       IN  IF d = "continue"
           THEN callers' = [callers EXCEPT ![c].pc = "loop", ![c].line = NoLine]
           ELSE CallerEnds(c, d, line.id)
    /\ UNCHANGED <<proc, request_id, clock, stdout, written, answered>>
    /\ UNCHANGED callerFrame

\* the server answers the oldest request it has not answered yet
ServerAnswer ==
    /\ proc = "alive"
    /\ answered < Len(written)
    /\ Len(stdout) < MaxPipe
    /\ stdout' = Append(stdout, ResultLine(written[answered + 1], <<TextBlock(MsgOk)>>))
    /\ answered' = answered + 1
    /\ UNCHANGED <<proc, request_id, clock, written, callers>>
    /\ UNCHANGED callerFrame

\* time passes
CallerTick ==
    /\ \E c \in Callers : callers[c].pc \in {"loop", "readline", "compare"}
    /\ clock < 2 * Timeout
    /\ clock' = clock + 1
    /\ UNCHANGED <<proc, request_id, stdout, written, callers, answered>>
    /\ UNCHANGED callerFrame

ConcNext ==
    \/ \E c \in Callers : CallerLoad(c)
    \/ \E c \in Callers : CallerStore(c)
    \/ \E c \in Callers : CallerWrite(c)
    \/ \E c \in Callers : CallerLoopHead(c)
    \/ \E c \in Callers : CallerReadLine(c)
    \/ \E c \in Callers : CallerCompare(c)
    \/ ServerAnswer
    \/ CallerTick
    \/ ChildExit

ConcSpec == ConcInit /\ [][ConcNext]_vars

\* ------------------------------------------- the token generator's .env
\* auth_token_generator.py: the .env file is read, the two credential keys
\* are kept, the token and its header are written into the lines, and the
\* file is replaced.  Lines and file contents are texts, character by
\* character, so that parsing and rewriting are computed.
ENV_KEY_ID == <<"X","E","R","O","_","C","L","I","E","N","T","_","I","D">>

ENV_KEY_SECRET == <<"X","E","R","O","_","C","L","I","E","N","T","_","S","E","C","R","E","T">>

ENV_KEY_TOKEN == <<"X","E","R","O","_","C","L","I","E","N","T","_","B","E","A","R","E","R","_","T","O","K","E","N">>

\* line.startswith("# XERO TOKEN:")
MetaPrefix == <<"#"," ","X","E","R","O"," ","T","O","K","E","N",":">>

MetaGenerated == <<" ","g","e","n","e","r","a","t","e","d"," ">>

MetaExpires == <<" ","A","E","S","T",";"," ","e","x","p","i","r","e","s"," ">>

TextUnknown == <<"u","n","k","n","o","w","n">>

IsSpace(c) == c \in {" ", "\t", "\n", "\r"}

\* str.lstrip()
lstrip(s) ==
    IF \A i \in 1..Len(s) : IsSpace(s[i])
    THEN <<>>
    ELSE LET k == CHOOSE i \in 1..Len(s) :
                    ~IsSpace(s[i]) /\ \A j \in 1..(i - 1) : IsSpace(s[j])
         IN  SubSeq(s, k, Len(s))

\* str.rstrip()
rstrip(s) ==
    IF \A i \in 1..Len(s) : IsSpace(s[i])
    THEN <<>>
    ELSE LET k == CHOOSE i \in 1..Len(s) :
                    ~IsSpace(s[i]) /\ \A j \in (i + 1)..Len(s) : IsSpace(s[j])
         IN  SubSeq(s, 1, k)

\* str.strip()
strip(s) == rstrip(lstrip(s))

\* str.rstrip("\n")
rstrip_newline(s) ==
    IF \A i \in 1..Len(s) : s[i] = "\n"
    THEN <<>>
    ELSE LET k == CHOOSE i \in 1..Len(s) :
                    s[i] # "\n" /\ \A j \in (i + 1)..Len(s) : s[j] = "\n"
         IN  SubSeq(s, 1, k)

\* str.startswith
startswith(s, prefix) == Len(prefix) <= Len(s) /\ SubSeq(s, 1, Len(prefix)) = prefix

\* str.endswith
endswith(s, suffix) ==
    Len(suffix) <= Len(s) /\ SubSeq(s, Len(s) - Len(suffix) + 1, Len(s)) = suffix

HasChar(s, c) == \E i \in 1..Len(s) : s[i] = c

\* str.find(c) + 1 for a character that occurs
FirstIndex(s, c) == CHOOSE i \in 1..Len(s) : s[i] = c /\ \A j \in 1..(i - 1) : s[j] # c

NotParsed == [ok |-> FALSE, key |-> <<>>, value |-> <<>>, sep |-> <<>>]

\* parse_env_line: None, or (key, value, sep_ext)
parse_env_line(line) ==
    LET stripped == lstrip(line)
    IN  IF stripped = <<>> \/ startswith(stripped, <<"#">>) THEN NotParsed
        ELSE IF ~HasChar(line, "=") THEN NotParsed
        ELSE LET eq_idx == FirstIndex(line, "=")
                 before == SubSeq(line, 1, eq_idx - 1)
                 after == SubSeq(line, eq_idx + 1, Len(line))
                 key == strip(before)
             IN  IF key = <<>> \/ HasChar(key, " ") \/ HasChar(key, "\t") THEN NotParsed
                 ELSE [ok |-> TRUE, key |-> key, value |-> rstrip_newline(after),
                       sep |-> SubSeq(line, Len(before) + 1, eq_idx)]

\* "".join(lines)
RECURSIVE Join(_)
Join(lines) == IF lines = <<>> THEN <<>> ELSE Head(lines) \o Join(Tail(lines))

\* str.splitlines(keepends=True), for texts whose only line end is "\n"
RECURSIVE splitlines(_)
splitlines(t) ==
    IF t = <<>> THEN <<>>
    ELSE IF HasChar(t, "\n")
         THEN LET k == FirstIndex(t, "\n")
              IN  <<SubSeq(t, 1, k)>> \o splitlines(SubSeq(t, k + 1, Len(t)))
         ELSE <<t>>

\* the lines that assign key
KeyLines(lines, key) ==
    {i \in 1..Len(lines) : parse_env_line(lines[i]).ok /\ parse_env_line(lines[i]).key = key}

Min(S) == CHOOSE i \in S : \A j \in S : i <= j

Max(S) == CHOOSE i \in S : \A j \in S : i >= j

\* mapping[key] of load_env_file, existing[key] of ensure_preserved_keys: the
\* last assignment wins
last_value(lines, key) == parse_env_line(lines[Max(KeyLines(lines, key))]).value

\* the line upsert_env_key rewrites: the first match (k == key and not updated)
upsert_target(lines, key) == Min(KeyLines(lines, key))

\* upsert_env_key
upsert_env_key(lines, key, value) ==
    IF KeyLines(lines, key) # {}
    THEN LET t == upsert_target(lines, key)
             p == parse_env_line(lines[t])
         IN  [i \in 1..Len(lines) |->
                 IF i = t THEN p.key \o p.sep \o value \o <<"\n">> ELSE lines[i]]
    ELSE LET out == IF lines # <<>> /\ ~endswith(lines[Len(lines)], <<"\n">>)
                    THEN [lines EXCEPT ![Len(lines)] = @ \o <<"\n">>]
                    ELSE lines
         IN  Append(out, key \o <<"=">> \o value \o <<"\n">>)

\* ensure_preserved_keys: preserved is the dict, as the sequence of its items
RECURSIVE ensure_from(_, _, _)
ensure_from(out, orig_lines, preserved) ==
    IF preserved = <<>> THEN out
    ELSE LET k == Head(preserved)[1]
             v == Head(preserved)[2]
             next == IF KeyLines(orig_lines, k) # {}
                     THEN upsert_env_key(out, k, last_value(orig_lines, k))
                     ELSE IF v # NoValue THEN upsert_env_key(out, k, v)
                     ELSE out
         IN  ensure_from(next, orig_lines, Tail(preserved))

ensure_preserved_keys(orig_lines, preserved) == ensure_from(orig_lines, orig_lines, preserved)

\* an inject_token_block that leaves old header lines in place
prune_nothing(lines) == lines

\* the header lines are dropped
prune(lines) == SelectSeq(lines, LAMBDA l : ~startswith(l, MetaPrefix))

\* the metadata comment
meta_line(now, expires_at_iso) ==
    MetaPrefix \o MetaGenerated \o now \o MetaExpires
        \o (IF expires_at_iso = NoValue THEN TextUnknown ELSE expires_at_iso) \o <<"\n">>

\* inject_token_block
inject_token_block(lines, token, now, expires_at_iso) ==
    LET out == prune(upsert_env_key(lines, ENV_KEY_TOKEN, token))
        hits == {i \in 1..Len(out) : startswith(lstrip(out[i]), ENV_KEY_TOKEN \o <<"=">>)}
        meta == meta_line(now, expires_at_iso)
    IN  IF hits = {}
        THEN out \o <<meta, ENV_KEY_TOKEN \o <<"=">> \o token \o <<"\n">>>>
        ELSE LET idx == Min(hits)
             IN  SubSeq(out, 1, idx - 1) \o <<meta>> \o SubSeq(out, idx, Len(out))

\* ---- inputs
\* lines an .env file is made of
LineTexts ==
    { <<"X","E","R","O","_","C","L","I","E","N","T","_","I","D","=","a","\n">>,
      <<"X","E","R","O","_","C","L","I","E","N","T","_","I","D","=","b","\n">>,
      <<"X","E","R","O","_","C","L","I","E","N","T","_","S","E","C","R","E","T","=","s","\n">>,
      <<"X","E","R","O","_","C","L","I","E","N","T","_","B","E","A","R","E","R","_","T","O","K","E","N","=","t","0","\n">>,
      <<" ","X","E","R","O","_","C","L","I","E","N","T","_","B","E","A","R","E","R","_","T","O","K","E","N"," ","="," ","t","9","\n">>,
      <<"#"," ","X","E","R","O"," ","T","O","K","E","N",":"," ","g","e","n","e","r","a","t","e","d"," ","T","0"," ","A","E","S","T",";"," ","e","x","p","i","r","e","s"," ","e","\n">>,
      <<"#"," ","n","o","t","e","\n">>,
      <<"\n">> }

RECURSIVE LineSeqs(_)
LineSeqs(n) ==
    IF n = 0 THEN {<<>>}
    ELSE LineSeqs(n - 1) \cup {Append(ls, l) : ls \in {x \in LineSeqs(n - 1) : Len(x) = n - 1}, l \in LineTexts}

\* the contents of an .env file: up to MaxLines lines, the last one with or
\* without its line end
FileTexts ==
    LET full == {Join(ls) : ls \in LineSeqs(MaxLines)}
    IN  full \cup {SubSeq(t, 1, Len(t) - 1) : t \in {u \in full : u # <<>>}}

File(t, m) == [exists |-> TRUE, content |-> t, mode |-> m]

\* the mode of an .env file (a temporary file is created with 0600)
Modes == {"0644"}

\* the credentials the user gives when the file has none, the tokens the
\* server issues (one per run), the time of a run, the expiry
UserClientId == <<"c">>

UserClientSecret == <<"k">>

TokenOfRun(r) == <<"t", IF r = 1 THEN "1" ELSE IF r = 2 THEN "2" ELSE "3">>

NowOfRun(r) == <<"T", IF r = 1 THEN "1" ELSE IF r = 2 THEN "2" ELSE "3">>

ExpiresAt == <<"e">>

\* ---- the program
\* main() is about to run for the first time, on some .env file or none
EnvInit ==
    /\ ClientIdle
    /\ CallersIdle
    /\ ToolIdle
    /\ env_file \in {Absent} \cup {File(t, m) : t \in FileTexts, m \in Modes}
    /\ tmp_file = Absent
    /\ backup_file = Absent
    /\ env_lines = <<>>
    /\ post_preserve = <<>>
    /\ final_lines = <<>>
    /\ access_token = <<>>
    /\ perm = NoPerm
    /\ tg_pc = "main"
    /\ runs = 1

\* what a step of the token generator leaves alone
envFrame == <<clientVars, callerVars, toolVars>>

\* load_env_file: (lines, mapping); the mapping is read off the lines
load_env_file(f) == IF f.exists THEN splitlines(f.content) ELSE <<>>

\* resolve_credentials: the .env is read
ResolveCredentials ==
    /\ tg_pc = "main"
    /\ env_lines' = load_env_file(env_file)
    /\ tg_pc' = "generate"
    /\ UNCHANGED <<env_file, tmp_file, backup_file, post_preserve, final_lines,
                   access_token, perm, runs>>
    /\ UNCHANGED envFrame

\* gen.generate_token: a token, or TokenGeneratorError and sys.exit(1)
GenerateToken ==
    /\ tg_pc = "generate"
    /\ \/ /\ access_token' = TokenOfRun(runs)
          /\ tg_pc' = "preserve"
       \/ /\ access_token' = access_token
          /\ tg_pc' = "failed"
    /\ UNCHANGED <<env_file, tmp_file, backup_file, env_lines, post_preserve,
                   final_lines, perm, runs>>
    /\ UNCHANGED envFrame

\* cid and csec of resolve_credentials: the file's value when it has a
\* non-empty one, else what the environment or the user gives
credential(lines, key, given) ==
    IF KeyLines(lines, key) # {} /\ last_value(lines, key) # <<>>
    THEN last_value(lines, key)
    ELSE given

\* preserved = {ENV_KEY_ID: ..., ENV_KEY_SECRET: ...}
preserved_of(lines) ==
    << <<ENV_KEY_ID,
         IF KeyLines(lines, ENV_KEY_ID) # {}
         THEN last_value(lines, ENV_KEY_ID)
         ELSE credential(lines, ENV_KEY_ID, UserClientId)>>,
       <<ENV_KEY_SECRET,
         IF KeyLines(lines, ENV_KEY_SECRET) # {}
         THEN last_value(lines, ENV_KEY_SECRET)
         ELSE credential(lines, ENV_KEY_SECRET, UserClientSecret)>> >>

\* post_preserve = ensure_preserved_keys(env_lines, preserved)
EnsurePreserved ==
    /\ tg_pc = "preserve"
    /\ post_preserve' = ensure_preserved_keys(env_lines, preserved_of(env_lines))
    /\ tg_pc' = "inject"
    /\ UNCHANGED <<env_file, tmp_file, backup_file, env_lines, final_lines,
                   access_token, perm, runs>>
    /\ UNCHANGED envFrame

\* final_lines = inject_token_block(post_preserve, token=access_token, ...)
InjectToken ==
    /\ tg_pc = "inject"
    /\ final_lines' = inject_token_block(post_preserve, access_token, NowOfRun(runs), ExpiresAt)
    /\ tg_pc' = "write"
    /\ UNCHANGED <<env_file, tmp_file, backup_file, env_lines, post_preserve,
                   access_token, perm, runs>>
    /\ UNCHANGED envFrame

\* write_env_atomic: perm = mode of the file if it exists
WriteStat ==
    /\ tg_pc = "write"
    /\ perm' = IF env_file.exists THEN env_file.mode ELSE NoPerm
    /\ tg_pc' = "write_tmp"
    /\ UNCHANGED <<env_file, tmp_file, backup_file, env_lines, post_preserve,
                   final_lines, access_token, runs>>
    /\ UNCHANGED envFrame

\* write_env_atomic: the temporary file is created in the directory of the
\* .env and written
WriteTmp ==
    /\ tg_pc = "write_tmp"
    /\ tmp_file' = File(Join(final_lines), "0600")
    /\ tg_pc' = "write_chmod"
    /\ UNCHANGED <<env_file, backup_file, env_lines, post_preserve, final_lines,
                   access_token, perm, runs>>
    /\ UNCHANGED envFrame

\* write_env_atomic: os.chmod(tmp_path, perm) if perm is not None
WriteChmod ==
    /\ tg_pc = "write_chmod"
    /\ tmp_file' = IF perm # NoPerm THEN [tmp_file EXCEPT !.mode = perm] ELSE tmp_file
    /\ tg_pc' = "write_backup"
    /\ UNCHANGED <<env_file, backup_file, env_lines, post_preserve, final_lines,
                   access_token, perm, runs>>
    /\ UNCHANGED envFrame

\* write_env_atomic: env_path.replace(backup) if env_path exists
WriteBackup ==
    /\ tg_pc = "write_backup"
    /\ IF env_file.exists
       THEN /\ backup_file' = env_file
            /\ env_file' = Absent
       ELSE UNCHANGED <<env_file, backup_file>>
    /\ tg_pc' = "write_replace"
    /\ UNCHANGED <<tmp_file, env_lines, post_preserve, final_lines, access_token,
                   perm, runs>>
    /\ UNCHANGED envFrame

\* write_env_atomic: tmp_path.replace(env_path)
WriteReplace ==
    /\ tg_pc = "write_replace"
    /\ env_file' = tmp_file
    /\ tmp_file' = Absent
    /\ tg_pc' = "done"
    /\ UNCHANGED <<backup_file, env_lines, post_preserve, final_lines, access_token,
                   perm, runs>>
    /\ UNCHANGED envFrame

\* the program is run again, on the files the last run left
RunAgain ==
    /\ tg_pc \in {"done", "failed"}
    /\ runs < MaxRuns
    /\ runs' = runs + 1
    /\ tg_pc' = "main"
    /\ env_lines' = <<>>
    /\ post_preserve' = <<>>
    /\ final_lines' = <<>>
    /\ access_token' = <<>>
    /\ perm' = NoPerm
    /\ UNCHANGED <<env_file, tmp_file, backup_file>>
    /\ UNCHANGED envFrame

EnvNext ==
    \/ ResolveCredentials
    \/ GenerateToken
    \/ EnsurePreserved
    \/ InjectToken
    \/ WriteStat
    \/ WriteTmp
    \/ WriteChmod
    \/ WriteBackup
    \/ WriteReplace
    \/ RunAgain

EnvSpec == EnvInit /\ [][EnvNext]_vars

\* ------------------------------------------------------------- tool layer
\* The functions of utils/xero_tools.py and of mcp_client.py that call
\* client.call_tool.  A call_tool is one step here: it ends in one of the ways
\* the session protocol above lets it end, with the text str(e) of the
\* exception it raises.  self._request_id is not followed in this part (no
\* decision of the tool layer reads it).

\* call_tool, line 354
MsgNotInitialized == <<"M","C","P"," ","c","l","i","e","n","t"," ","n","o","t"," ","i","n","i","t","i","a","l","i","z","e","d">>

\* call_tool, line 357
MsgPreviousAuth == <<"P","r","e","v","i","o","u","s"," ","a","u","t","h","e","n","t","i","c","a","t","i","o","n"," ","f","a","i","l","u","r","e"," ","d","e","t","e","c","t","e","d">>

\* _rpc, line 251
MsgNotStarted == <<"M","C","P"," ","s","e","r","v","e","r"," ","n","o","t"," ","s","t","a","r","t","e","d"," ","o","r"," ","c","o","n","n","e","c","t","i","o","n"," ","b","r","o","k","e","n">>

\* a message of a server that could not parse what Xero sent
MsgUnexpectedToken == <<"U","n","e","x","p","e","c","t","e","d"," ","t","o","k","e","n"," ","<"," ","i","n"," ","J","S","O","N"," ","a","t"," ","p","o","s","i","t","i","o","n"," ","0">>

\* what a dying child may have left on its stderr
StderrUnauthorized == <<"E","r","r","o","r",":"," ","4","0","1"," ","U","n","a","u","t","h","o","r","i","z","e","d">>

\* the lock sign the two authentication messages start with (one character)
Lock == <<"U+1F510">>

\* the list of check_authentication_and_halt
halt_indicators ==
    << <<"4","0","1">>,
       <<"4","0","3">>,
       <<"u","n","a","u","t","h","o","r","i","z","e","d">>,
       <<"f","o","r","b","i","d","d","e","n">>,
       <<"t","o","k","e","n">>,
       <<"a","u","t","h","e","n","t","i","c","a","t","i","o","n">> >>

\* the name of a tool as the text of a message
NameText(name) ==
    CASE name = "list-organisation-details" -> <<"l","i","s","t","-","o","r","g","a","n","i","s","a","t","i","o","n","-","d","e","t","a","i","l","s">>
      [] name = "get-organisation" -> <<"g","e","t","-","o","r","g","a","n","i","s","a","t","i","o","n">>
      [] name = "list-report-balance-sheet" -> <<"l","i","s","t","-","r","e","p","o","r","t","-","b","a","l","a","n","c","e","-","s","h","e","e","t">>
      [] name = "list-contacts" -> <<"l","i","s","t","-","c","o","n","t","a","c","t","s">>
      [] name = "list-invoices" -> <<"l","i","s","t","-","i","n","v","o","i","c","e","s">>
      [] OTHER -> <<"l","i","s","t","-","p","r","o","f","i","t","-","a","n","d","-","l","o","s","s">>

\* ---- str(e) of the exceptions of _rpc and call_tool; the method is
\* tools/call, the timeout DEFAULT_TIMEOUT, and the error objects of this
\* model carry no code ('unknown')
\* f"<lock> Authentication failed for '{method}': {error_message}"
str_auth_rpc(m) ==
    Lock \o <<" ","A","u","t","h","e","n","t","i","c","a","t","i","o","n"," ","f","a","i","l","e","d"," ","f","o","r"," ","'","t","o","o","l","s","/","c","a","l","l","'",":"," ">>
         \o m

\* f"MCP server error for '{method}': {error_message} (code: {error_code})"
str_server_error(m) ==
    <<"M","C","P"," ","s","e","r","v","e","r"," ","e","r","r","o","r"," ","f","o","r"," ","'","t","o","o","l","s","/","c","a","l","l","'",":"," ">>
        \o m \o <<" ","(","c","o","d","e",":"," ","u","n","k","n","o","w","n",")">>

\* f"<lock> Authentication failed during tool call '{name}': {text}"
str_auth_tool(name, t) ==
    Lock \o <<" ","A","u","t","h","e","n","t","i","c","a","t","i","o","n"," ","f","a","i","l","e","d"," ","d","u","r","i","n","g"," ","t","o","o","l"," ","c","a","l","l"," ","'">>
         \o NameText(name) \o <<"'",":"," ">> \o t

\* f"Timeout waiting for response to '{method}' after {timeout}s"
str_timeout ==
    <<"T","i","m","e","o","u","t"," ","w","a","i","t","i","n","g"," ","f","o","r"," ","r","e","s","p","o","n","s","e"," ","t","o"," ","'","t","o","o","l","s","/","c","a","l","l","'"," ","a","f","t","e","r"," ","3","0",".","0","s">>

\* f"Connection to MCP server broken. Stderr: {stderr_output}"
str_broken(stderr_output) ==
    <<"C","o","n","n","e","c","t","i","o","n"," ","t","o"," ","M","C","P"," ","s","e","r","v","e","r"," ","b","r","o","k","e","n","."," ","S","t","d","e","r","r",":"," ">>
        \o stderr_output

\* f"MCP server process died. Stderr: {stderr_output}"
str_died(stderr_output) ==
    <<"M","C","P"," ","s","e","r","v","e","r"," ","p","r","o","c","e","s","s"," ","d","i","e","d","."," ","S","t","d","e","r","r",":"," ">>
        \o stderr_output

\* f"Both methods failed. Primary: {e}, Fallback: {fallback_error}"
str_both(e, fallback_error) ==
    <<"B","o","t","h"," ","m","e","t","h","o","d","s"," ","f","a","i","l","e","d","."," ","P","r","i","m","a","r","y",":"," ">>
        \o e \o <<","," ","F","a","l","l","b","a","c","k",":"," ">> \o fallback_error

\* the text of the first block the scan of call_tool stops at
FirstAuthText(content) ==
    LET hits == {k \in 1..Len(content) :
                    /\ content[k].isDict
                    /\ content[k].hasText
                    /\ detect_authentication_error(content[k].text)}
    IN  content[Min(hits)].text

\* messages of the error objects a server answers a tool call with
ToolErrorMessages == ErrorMessages \cup {MsgUnexpectedToken}

\* the lines that resolve a request (its id is the one they carry)
ToolLines ==
    {ResultLine(1, c) : c \in Contents} \cup {ErrorLine(1, m) : m \in ToolErrorMessages}

\* what self.proc.stderr.read() returns when the child is found dead
StderrTexts == {<<>>, StderrUnauthorized}

ToolNames ==
    {"list-organisation-details", "get-organisation", "list-profit-and-loss",
     "list-report-balance-sheet", "list-contacts", "list-invoices"}

\* How a call_tool ended: the kind ("returned" or the exception), str(e), the
\* latch and the child after it, the response it returned (NoLine when it
\* raised); fault: the server or the child did not answer with the plain
\* result.
Ended(k, m, f, p, x) ==
    [kind |-> k, message |-> m, flag |-> f, proc |-> p, fault |-> x, response |-> NoLine]

\* line 379 of call_tool: return response
Returned(line) ==
    [Ended("returned", <<>>, FALSE, "alive", line.content # <<TextBlock(MsgOk)>>)
        EXCEPT !.response = line]

\* call_tool(name) on a live session whose latch is not set, its _rpc resolved
\* with line: the error object is classified by _rpc, the content of a result
\* is scanned by call_tool
call_tool_line(name, line) ==
    LET d == Dispatch(line, line.id)
    IN  IF d = "MCPAuthenticationError"
        THEN Ended(d, str_auth_rpc(line.message), TRUE, "alive", TRUE)
        ELSE IF d = "MCPServerError"
        THEN Ended(d, str_server_error(line.message), FALSE, "alive", TRUE)
        ELSE IF ContentHasAuth(line.content)
        THEN Ended("MCPAuthenticationError", str_auth_tool(name, FirstAuthText(line.content)),
                   TRUE, "alive", TRUE)
        ELSE Returned(line)

\* every way call_tool(name) ends once the guards are passed and the request
\* is written: a resolving line; the timeout; the child found dead in the
\* wait loop
live_outcomes ==
    [name \in ToolNames |->
        {call_tool_line(name, l) : l \in ToolLines}
        \cup {Ended("MCPTimeoutError", str_timeout, FALSE, "alive", TRUE)}
        \cup {Ended("MCPConnectionError", str_died(e), FALSE, "exited", TRUE) :
                  e \in StderrTexts}]

\* every way call_tool(name) can end in the present state of the client: the
\* two guards; no handle; the write to a dead child; the ways above
call_tool_outcomes(name) ==
    IF call_tool_guard = "MCPConnectionError"
    THEN {Ended("MCPConnectionError", MsgNotInitialized, authentication_failed, proc, FALSE)}
    ELSE IF call_tool_guard = "MCPAuthenticationError"
    THEN {Ended("MCPAuthenticationError", MsgPreviousAuth, TRUE, proc, FALSE)}
    ELSE IF proc = "None"
    THEN {Ended("MCPConnectionError", MsgNotStarted, authentication_failed, proc, FALSE)}
    ELSE IF proc = "exited"
    THEN {Ended("MCPConnectionError", str_broken(<<>>), authentication_failed, proc, FALSE)}
    ELSE live_outcomes[name]

\* str(e) of every exception a call_tool of this model raises
ToolMessages ==
    {MsgNotInitialized, MsgPreviousAuth, MsgNotStarted, str_broken(<<>>)}
    \cup UNION {{o.message : o \in live_outcomes[n]} : n \in ToolNames}

\* is_authentication_error on these texts
is_auth_text == [m \in ToolMessages |-> is_authentication_error(m)]

\* the outcomes left while the server and the child have failed fewer than
\* MaxFaults calls of the function that is running
Allowed(name) == {o \in call_tool_outcomes(name) : o.fault => faults < MaxFaults}

\* the client after a call_tool that ended with o, and the count of failures
ClientAfter(o) ==
    /\ authentication_failed' = o.flag
    /\ proc' = o.proc
    /\ faults' = IF o.fault THEN faults + 1 ELSE faults

\* ---- dates
IsLeap(y) == (y % 4 = 0 /\ y % 100 # 0) \/ y % 400 = 0

DaysIn(y, m) ==
    IF m = 2 THEN (IF IsLeap(y) THEN 29 ELSE 28)
    ELSE IF m \in {4, 6, 9, 11} THEN 30 ELSE 31

\* date(y, m, d) raises ValueError unless this holds
ValidDate(y, m, d) == m \in 1..12 /\ d \in 1..DaysIn(y, m)

\* d - timedelta(days=1)
PrevDay(d) ==
    IF d.day > 1 THEN Date(d.year, d.month, d.day - 1)
    ELSE IF d.month > 1 THEN Date(d.year, d.month - 1, DaysIn(d.year, d.month - 1))
    ELSE Date(d.year - 1, 12, 31)

DateRange(s, e) == [start_date |-> s, end_date |-> e]

\* get_last_complete_month(reference_date)
get_last_complete_month(reference_date) ==
    LET first_current == Date(reference_date.year, reference_date.month, 1)
        last_previous == PrevDay(first_current)
        first_previous == Date(last_previous.year, last_previous.month, 1)
    IN  DateRange(first_previous, last_previous)

\* lines 638-643 (199-204 of mcp_client.py): the month of iteration i
target(current_date, i) ==
    LET target_month == current_date.month - i - 1
    IN  IF target_month <= 0
        THEN [month |-> target_month + 12, year |-> current_date.year - 1]
        ELSE [month |-> target_month, year |-> current_date.year]

\* lines 646-652 of get_monthly_pl_summary, for a month that is one
monthly_range(t) ==
    LET first_day == Date(t.year, t.month, 1)
        last_day == IF t.month = 12
                    THEN PrevDay(Date(t.year + 1, 1, 1))
                    ELSE PrevDay(Date(t.year, t.month + 1, 1))
    IN  DateRange(first_day, last_day)

\* lines 207-210 of export_combined_multi_month_pl (monthrange(y, m)[1] is
\* the number of days of the month)
export_range(t) ==
    DateRange(Date(t.year, t.month, 1), Date(t.year, t.month, DaysIn(t.year, t.month)))

\* ---- responses
XeroToolResponse(s, d, n, m, a) ==
    [success |-> s, data |-> d, tool_name |-> n, error_message |-> m, is_auth_error |-> a]

\* one client.call_tool of the function that is running, and how it ended
Call(n, a, o) == [name |-> n, arguments |-> a, kind |-> o.kind, response |-> o.response]

\* get_profit_and_loss around a call_tool that ended with o
get_profit_and_loss(o) ==
    IF o.kind = "returned"
    THEN XeroToolResponse(TRUE, o.response, "list-profit-and-loss", NoValue, FALSE)
    ELSE IF o.kind = "MCPAuthenticationError"
    THEN XeroToolResponse(FALSE, NoLine, "list-profit-and-loss", o.message, TRUE)
    ELSE XeroToolResponse(FALSE, NoLine, "list-profit-and-loss", o.message,
                          is_auth_text[o.message])

\* get_balance_sheet around a call_tool that ended with o
get_balance_sheet(o) ==
    IF o.kind = "returned"
    THEN XeroToolResponse(TRUE, o.response, "list-report-balance-sheet", NoValue, FALSE)
    ELSE IF o.kind = "MCPAuthenticationError"
    THEN XeroToolResponse(FALSE, NoLine, "list-report-balance-sheet", o.message, TRUE)
    ELSE XeroToolResponse(FALSE, NoLine, "list-report-balance-sheet", o.message,
                          is_auth_text[o.message])

\* a get_contacts without the except clause for MCPAuthenticationError
get_contacts_one_handler(o) ==
    IF o.kind = "returned"
    THEN XeroToolResponse(TRUE, o.response, "list-contacts", NoValue, FALSE)
    ELSE XeroToolResponse(FALSE, NoLine, "list-contacts", o.message, is_auth_text[o.message])

\* get_contacts around a call_tool that ended with o
get_contacts(o) ==
    IF o.kind = "returned"
    THEN XeroToolResponse(TRUE, o.response, "list-contacts", NoValue, FALSE)
    ELSE IF o.kind = "MCPAuthenticationError"
    THEN XeroToolResponse(FALSE, NoLine, "list-contacts", o.message, TRUE)
    ELSE XeroToolResponse(FALSE, NoLine, "list-contacts", o.message, is_auth_text[o.message])

\* get_invoices around a call_tool that ended with o
get_invoices(o) ==
    IF o.kind = "returned"
    THEN XeroToolResponse(TRUE, o.response, "list-invoices", NoValue, FALSE)
    ELSE IF o.kind = "MCPAuthenticationError"
    THEN XeroToolResponse(FALSE, NoLine, "list-invoices", o.message, TRUE)
    ELSE XeroToolResponse(FALSE, NoLine, "list-invoices", o.message, is_auth_text[o.message])

\* the wrappers that make one call, and the tool each of them calls
SingleCallWrappers ==
    {"get_profit_and_loss", "get_balance_sheet", "get_contacts", "get_invoices"}

wrapper_tool(f) ==
    CASE f = "get_balance_sheet" -> "list-report-balance-sheet"
      [] f = "get_contacts" -> "list-contacts"
      [] f = "get_invoices" -> "list-invoices"
      [] OTHER -> "list-profit-and-loss"

\* what the wrapper f returns around a call_tool that ended with o
wrapper_response(f, o) ==
    CASE f = "get_balance_sheet" -> get_balance_sheet(o)
      [] f = "get_contacts" -> get_contacts(o)
      [] f = "get_invoices" -> get_invoices(o)
      [] OTHER -> get_profit_and_loss(o)

\* a get_organisation_details that calls the fallback after every error
needs_fallback_always(kind) == TRUE

\* the except clauses of the primary call: MCPAuthenticationError is caught
\* first and returns, every other MCPError leads to the fallback
needs_fallback(kind) == kind # "MCPAuthenticationError"

\* a loop that never stops early
monthly_breaks_never(pl_response) == FALSE

\* line 659 of get_monthly_pl_summary
monthly_breaks(pl_response) == pl_response.is_auth_error

\* any(indicator in error_message.lower() for indicator in [...]), lines 68-71
has_halt_indicator(error_message) ==
    \E k \in 1..Len(halt_indicators) : Contains(lower(error_message), halt_indicators[k])

\* the same on the texts of this model
halt_text == [m \in ToolMessages |-> has_halt_indicator(m)]

\* check_authentication_and_halt raises for this response
halts(response) ==
    /\ ~response.success
    /\ response.error_message # NoValue
    /\ response.error_message # <<>>
    /\ halt_text[response.error_message]

\* a health check that runs the P&L test whatever the first test showed
health_skips_pl_never(org_response) == FALSE

\* line 695 of health_check
health_skips_pl(org_response) == org_response.is_auth_error

\* an entry of health_results["tests"]
Test(n, r) == [name |-> n, success |-> r.success, error |-> r.error_message,
               is_auth_error |-> r.is_auth_error]

\* lines 716-721 of health_check
overall_status(tests) ==
    LET auth_errors == \E k \in 1..Len(tests) : tests[k].is_auth_error
        all_successful == \A k \in 1..Len(tests) : tests[k].success
    IN  IF auth_errors THEN "authentication_failed"
        ELSE IF all_successful THEN "healthy" ELSE "degraded"

\* ---- the program
Months == 1..12

\* A client on some day of 2024, before a function of the tool layer is
\* called: started (its child alive, or dead since; the latch set by an
\* earlier call_tool, or not), or never started.
ToolInit ==
    /\ \/ /\ proc \in {"alive", "exited"}
          /\ initialized = TRUE
          /\ authentication_failed \in BOOLEAN
          /\ request_id = 1
          /\ written = <<1>>
          /\ result = Res("start", "returned", ResultLine(1, <<TextBlock(MsgOk)>>), {})
       \/ /\ proc = "None"
          /\ initialized = FALSE
          /\ authentication_failed = FALSE
          /\ request_id = 0
          /\ written = <<>>
          /\ result = Res("none", "none", NoLine, {})
    /\ pc = "idle"
    /\ op = "none"
    /\ clock = 0
    /\ stdout = <<>>
    /\ text = <<>>
    /\ detected = NoVerdict
    /\ CallersIdle
    /\ EnvIdle
    /\ tl_op = "none"
    /\ tl_pc = "idle"
    /\ today \in {Date(2024, m, 15) : m \in Months}
    /\ months_back = 0
    /\ loop_i = 0
    /\ calls = <<>>
    /\ results = <<>>
    /\ primary_error = <<>>
    /\ health_results = NoHealth
    /\ pl_data_to_export = <<>>
    /\ export_file = NoValue
    /\ tl_result = "none"
    /\ faults = 0

\* what a step of the tool layer leaves alone
toolFrame == <<request_id, initialized, pc, op, clock, stdout, written, result, text,
               detected, callerVars, envVars, today>>

\* a function of the tool layer is called with months_back = n (0 where it
\* takes none) and starts at statement p
Enter(o, p, n) ==
    /\ tl_pc = "idle"
    /\ tl_op' = o
    /\ tl_pc' = p
    /\ months_back' = n
    /\ loop_i' = 0
    /\ calls' = <<>>
    /\ results' = <<>>
    /\ primary_error' = <<>>
    /\ health_results' = NoHealth
    /\ pl_data_to_export' = <<>>
    /\ export_file' = NoValue
    /\ tl_result' = "none"
    /\ faults' = 0
    /\ UNCHANGED <<proc, authentication_failed>>
    /\ UNCHANGED toolFrame

StartOrganisation == Enter("get_organisation_details", "org_primary", 0)

StartHealthCheck == Enter("health_check", "org_primary", 0)

StartMonthly == \E n \in 1..MaxMonths : Enter("get_monthly_pl_summary", "monthly_loop", n)

StartExport == \E n \in 1..MaxMonths : Enter("export_combined_multi_month_pl", "export_loop", n)

StartSingleCall == \E f \in SingleCallWrappers : Enter(f, "single_call", 0)

\* the function ends with t
Leave(t) ==
    /\ tl_pc' = "done"
    /\ tl_result' = t

\* get_organisation_details returns r: to its caller health_check, or the
\* function was called by itself
OrgReturns(r) ==
    /\ results' = Append(results, r)
    /\ IF tl_op = "health_check"
       THEN tl_pc' = "health_org" /\ tl_result' = tl_result
       ELSE Leave("returned")

\* lines 288-316: the primary call
OrgPrimary ==
    /\ tl_pc = "org_primary"
    /\ \E o \in Allowed("list-organisation-details") :
          /\ ClientAfter(o)
          /\ calls' = Append(calls, Call("list-organisation-details", <<>>, o))
          /\ IF o.kind = "returned"
             THEN /\ OrgReturns(XeroToolResponse(TRUE, o.response, "list-organisation-details",
                                               NoValue, FALSE))
                  /\ primary_error' = primary_error
             ELSE IF needs_fallback(o.kind)
             THEN /\ tl_pc' = "org_fallback"
                  /\ primary_error' = o.message
                  /\ UNCHANGED <<results, tl_result>>
             ELSE /\ OrgReturns(XeroToolResponse(FALSE, NoLine, "list-organisation-details",
                                               o.message, TRUE))
                  /\ primary_error' = primary_error
    /\ UNCHANGED <<tl_op, months_back, loop_i, health_results, pl_data_to_export, export_file>>
    /\ UNCHANGED toolFrame

\* lines 318-358: the fallback call
OrgFallback ==
    /\ tl_pc = "org_fallback"
    /\ \E o \in Allowed("get-organisation") :
          /\ ClientAfter(o)
          /\ calls' = Append(calls, Call("get-organisation", <<>>, o))
          /\ IF o.kind = "returned"
             THEN OrgReturns(XeroToolResponse(TRUE, o.response, "get-organisation", NoValue, FALSE))
             ELSE IF o.kind = "MCPAuthenticationError"
             THEN OrgReturns(XeroToolResponse(FALSE, NoLine, "organisation-details", o.message, TRUE))
             ELSE OrgReturns(XeroToolResponse(FALSE, NoLine, "organisation-details",
                                 str_both(primary_error, o.message),
                                 is_auth_text[primary_error] \/ is_auth_text[o.message]))
    /\ UNCHANGED <<tl_op, months_back, loop_i, primary_error, health_results,
                   pl_data_to_export, export_file>>
    /\ UNCHANGED toolFrame

\* lines 687-697 of health_check, and 716-739 when the P&L test is skipped
HealthOrg ==
    /\ tl_pc = "health_org"
    /\ LET org_response == results[1]
           tests == <<Test("organisation", org_response)>>
       IN  IF health_skips_pl(org_response)
           THEN /\ health_results' = [overall_status |-> overall_status(tests),
                                      tests |-> tests,
                                      authentication_status |-> "failed"]
                /\ Leave("returned")
           ELSE /\ health_results' = [health_results EXCEPT !.tests = tests]
                /\ tl_pc' = "health_pl"
                /\ tl_result' = tl_result
    /\ UNCHANGED <<tl_op, months_back, loop_i, calls, results, primary_error,
                   pl_data_to_export, export_file, faults, proc, authentication_failed>>
    /\ UNCHANGED toolFrame

\* lines 700-739 of health_check: the P&L test and the verdict
HealthPl ==
    /\ tl_pc = "health_pl"
    /\ \E o \in Allowed("list-profit-and-loss") :
          LET last_month == get_last_complete_month(today)
              pl_response == get_profit_and_loss(o)
              tests == Append(health_results.tests, Test("profit_loss", pl_response))
          IN  /\ ClientAfter(o)
              /\ calls' = Append(calls, Call("list-profit-and-loss", last_month, o))
              /\ results' = Append(results, pl_response)
              /\ health_results' =
                     [overall_status |-> overall_status(tests),
                      tests |-> tests,
                      authentication_status |->
                          IF pl_response.is_auth_error THEN "failed" ELSE "valid"]
              /\ Leave("returned")
    /\ UNCHANGED <<tl_op, months_back, loop_i, primary_error, pl_data_to_export, export_file>>
    /\ UNCHANGED toolFrame

\* one pass of the loop of get_monthly_pl_summary (lines 636-661), or its end
\* and the return of line 663
MonthlyIter ==
    /\ tl_op = "get_monthly_pl_summary"
    /\ tl_pc = "monthly_loop"
    /\ IF loop_i >= months_back
       THEN /\ Leave("returned")
            /\ UNCHANGED <<loop_i, calls, results, faults, proc, authentication_failed>>
       ELSE LET t == target(today, loop_i)
            IN  IF ~ValidDate(t.year, t.month, 1)
                THEN /\ Leave("ValueError")
                     /\ UNCHANGED <<loop_i, calls, results, faults, proc, authentication_failed>>
                ELSE \E o \in Allowed("list-profit-and-loss") :
                        LET pl_response == get_profit_and_loss(o)
                        IN  /\ ClientAfter(o)
                            /\ calls' = Append(calls, Call("list-profit-and-loss",
                                                           monthly_range(t), o))
                            /\ results' = Append(results, pl_response)
                            /\ IF monthly_breaks(pl_response)
                               THEN Leave("returned") /\ loop_i' = loop_i
                               ELSE /\ loop_i' = loop_i + 1
                                    /\ UNCHANGED <<tl_pc, tl_result>>
    /\ UNCHANGED <<tl_op, months_back, primary_error, health_results, pl_data_to_export,
                   export_file>>
    /\ UNCHANGED toolFrame

\* one pass of the loop of export_combined_multi_month_pl (lines 197-222), or
\* its end
ExportIter ==
    /\ tl_op = "export_combined_multi_month_pl"
    /\ tl_pc = "export_loop"
    /\ IF loop_i >= months_back
       THEN /\ tl_pc' = "export_write"
            /\ UNCHANGED <<tl_result, loop_i, calls, results, pl_data_to_export, faults,
                           proc, authentication_failed>>
       ELSE LET t == target(today, loop_i)
            IN  IF ~ValidDate(t.year, t.month, 1)
                THEN /\ Leave("ValueError")
                     /\ UNCHANGED <<loop_i, calls, results, pl_data_to_export, faults,
                                    proc, authentication_failed>>
                ELSE \E o \in Allowed("list-profit-and-loss") :
                        LET pl_response == get_profit_and_loss(o)
                        IN  /\ ClientAfter(o)
                            /\ calls' = Append(calls, Call("list-profit-and-loss",
                                                           export_range(t), o))
                            /\ results' = Append(results, pl_response)
                            /\ IF halts(pl_response)
                               THEN /\ Leave("AuthenticationFailureError")
                                    /\ UNCHANGED <<loop_i, pl_data_to_export>>
                               ELSE /\ loop_i' = loop_i + 1
                                    /\ pl_data_to_export' =
                                           IF pl_response.success
                                           THEN Append(pl_data_to_export, export_range(t))
                                           ELSE pl_data_to_export
                                    /\ UNCHANGED <<tl_pc, tl_result>>
    /\ UNCHANGED <<tl_op, months_back, primary_error, health_results, export_file>>
    /\ UNCHANGED toolFrame

\* lines 224-272: the combined file is written and True returned, or the
\* exporter raises and False is returned; nothing collected: False
ExportWrite ==
    /\ tl_pc = "export_write"
    /\ IF pl_data_to_export # <<>>
       THEN \/ export_file' = pl_data_to_export /\ Leave("True")
            \/ export_file' = export_file /\ Leave("False")
       ELSE export_file' = export_file /\ Leave("False")
    /\ UNCHANGED <<tl_op, months_back, loop_i, calls, results, primary_error, health_results,
                   pl_data_to_export, faults, proc, authentication_failed>>
    /\ UNCHANGED toolFrame

\* a wrapper that makes one call, called by itself: its try block and the
\* except clause the call_tool ends in (the arguments the caller chose are
\* passed through and not modelled)
SingleCall ==
    /\ tl_pc = "single_call"
    /\ \E o \in Allowed(wrapper_tool(tl_op)) :
          /\ ClientAfter(o)
          /\ calls' = Append(calls, Call(wrapper_tool(tl_op), <<>>, o))
          /\ results' = Append(results, wrapper_response(tl_op, o))
          /\ Leave("returned")
    /\ UNCHANGED <<tl_op, months_back, loop_i, primary_error, health_results,
                   pl_data_to_export, export_file>>
    /\ UNCHANGED toolFrame

ToolNext ==
    \/ StartOrganisation
    \/ StartHealthCheck
    \/ StartMonthly
    \/ StartExport
    \/ StartSingleCall
    \/ SingleCall
    \/ OrgPrimary
    \/ OrgFallback
    \/ HealthOrg
    \/ HealthPl
    \/ MonthlyIter
    \/ ExportIter
    \/ ExportWrite

ToolSpec == ToolInit /\ [][ToolNext]_vars

\* ------------------------------------------------------------------ claims
\* the signature set of the specification (section 4.3): ten substrings, the
\* ones is_authentication_error lists
SignatureSet == tool_auth_indicators

HasSignature(t) == \E k \in 1..Len(SignatureSet) : Contains(lower(t), SignatureSet[k])

\* C1: every call that has written its request eventually ends (a response,
\* an error or a timeout), whatever the child does.  Checked under FairSpec.
C1_RpcTerminates == (pc # "idle") ~> (pc = "idle")

\* C2: a call_tool step on an initialized session whose latch is set raises
\* MCPAuthenticationError in that very step, writes nothing, reads nothing and
\* takes no request id.
C2_LatchedCallToolNoIO ==
    [][(CallTool /\ initialized /\ authentication_failed)
        => /\ result'.op = "call_tool"
           /\ result'.kind = "MCPAuthenticationError"
           /\ result'.response = NoLine
           /\ pc' = "idle"
           /\ written' = written
           /\ stdout' = stdout
           /\ request_id' = request_id]_vars

\* a call_tool was refused by the latch on an initialized session
C2_Witness ==
    /\ initialized
    /\ authentication_failed
    /\ result = Res("call_tool", "MCPAuthenticationError", NoLine, {})

\* C3: authentication_failed is a one-way latch: no step of start, close,
\* call_tool, list_tools or _rpc takes it from true to false.
C3_LatchOneWay == [][authentication_failed => authentication_failed']_vars

\* the latch is still set after a close and a new, successful start
C3_Witness ==
    /\ authentication_failed
    /\ initialized
    /\ result.op = "start"
    /\ result.kind = "returned"
    /\ result.response # NoLine

\* C4: the ids of the written requests are positive and strictly increasing,
\* so none is used twice.
C4_IdsStrictlyIncreasing ==
    \A i \in 1..Len(written) :
        /\ written[i] > 0
        /\ i > 1 => written[i - 1] < written[i]

\* id 2 was taken by a call whose write met a broken pipe; after close and a
\* new start the handshake was written with id 3
C4_Witness == written = <<1, 3>> /\ proc = "alive"

\* C5: a line delivered as the outcome of a call (returned, or turned into a
\* server or authentication error) carries the id of the request this call
\* wrote, the last one written.
C5_OnlyOwnResponseDelivered ==
    result.response # NoLine
        => /\ Len(written) > 0
           /\ result.response.id = written[Len(written)]
           /\ result.response.id = request_id

\* a call skipped a late response to an earlier request and then returned
\* its own
C5_Witness ==
    /\ result.kind = "returned"
    /\ result.response # NoLine
    /\ "late" \in result.skipped

IsSkippable(line) ==
    \/ line.kind \in {"malformed", "blank", "nondict"}
    \/ line.kind = "json" /\ line.id # request_id

IsWellFormedMatch(line) ==
    /\ line.kind = "json"
    /\ line.id = request_id
    /\ line.error \in {"absent", "object"}

\* C6: a malformed, blank or other-id line read by the loop raises nothing,
\* leaves the call waiting and changes no session state; the well-formed line
\* with the pending id, once read, ends the call with exactly that line.
C6_NoiseSkippedMatchResolves ==
    [][(ReadLine /\ stdout # <<>>)
        => LET line == Head(stdout)
           IN  /\ IsSkippable(line)
                    => /\ pc' = "loop"
                       /\ result'.kind = "pending"
                       /\ result'.response = NoLine
                       /\ initialized' = initialized
                       /\ authentication_failed' = authentication_failed
                       /\ request_id' = request_id
                       /\ proc' = proc
               /\ IsWellFormedMatch(line)
                    => /\ pc' = "idle"
                       /\ result'.response = line
                       /\ result'.kind \in {"returned", "MCPServerError",
                                            "MCPAuthenticationError", "MCPConnectionError"}]_vars

\* a call returned its response after skipping noise and a late response
C6_Witness ==
    /\ pc = "idle"
    /\ result.kind = "returned"
    /\ result.response # NoLine
    /\ result.skipped = {"noise", "late"}

\* C7: when the matching response carries an error object whose message holds
\* a signature of the set, the call raises MCPAuthenticationError and the
\* latch is set in the same step; the next call_tool is refused without I/O.
C7_AuthErrorLatches ==
    [][/\ (/\ ReadLine
           /\ stdout # <<>>
           /\ op # "start"
           /\ Head(stdout).kind = "json"
           /\ Head(stdout).id = request_id
           /\ Head(stdout).error = "object"
           /\ HasSignature(Head(stdout).message))
          => /\ result'.kind = "MCPAuthenticationError"
             /\ authentication_failed'
       /\ (CallTool /\ initialized /\ authentication_failed)
          => /\ result'.kind = "MCPAuthenticationError"
             /\ written' = written
             /\ stdout' = stdout]_vars

\* C7 with the list of the transport in the place of the signature set: the
\* form in which the code meets it
Aux_C7_TransportIndicators ==
    [][(/\ ReadLine
        /\ stdout # <<>>
        /\ op # "start"
        /\ Head(stdout).kind = "json"
        /\ Head(stdout).id = request_id
        /\ Head(stdout).error = "object"
        /\ detect_authentication_error(Head(stdout).message))
          => /\ result'.kind = "MCPAuthenticationError"
             /\ result'.response = Head(stdout)
             /\ authentication_failed']_vars

\* C8: call_tool returns a response only if no textual block of its
\* result.content holds a signature of the set; otherwise it raises
\* MCPAuthenticationError and sets the latch.
C8_ContentAuthRaises ==
    /\ (result.op = "call_tool" /\ result.kind = "returned")
         => ~\E k \in 1..Len(result.response.content) :
                /\ result.response.content[k].isDict
                /\ result.response.content[k].hasText
                /\ HasSignature(result.response.content[k].text)
    /\ (/\ result.op = "call_tool"
        /\ result.kind = "MCPAuthenticationError"
        /\ result.response # NoLine)
         => authentication_failed

\* C8 with the list of the transport in the place of the signature set
Aux_C8_TransportIndicators ==
    /\ (result.op = "call_tool" /\ result.kind = "returned")
         => ~ContentHasAuth(result.response.content)
    /\ (/\ result.op = "call_tool"
        /\ result.response # NoLine
        /\ result.response.error = "absent"
        /\ ContentHasAuth(result.response.content))
         => /\ result.kind = "MCPAuthenticationError"
            /\ authentication_failed

\* C9: on every non-empty text the transport's detect_authentication_error
\* answers as is_authentication_error does, and it answers true on a text
\* that holds one of the ten signatures.  Checked under SentinelSpec.
C9_SentinelRecognisesAll ==
    (detected # NoVerdict /\ text # <<>>)
        => /\ detected.transport = detected.tool
           /\ HasSignature(text) => detected.transport = "auth"

\* C10: list_tools and _rpc, called on an initialized session whose latch is
\* set, raise MCPAuthenticationError at once and attempt no I/O.
C10_TransportEnforcesLatch ==
    [][((ListTools \/ Rpc) /\ initialized /\ authentication_failed)
        => /\ result'.kind = "MCPAuthenticationError"
           /\ pc' = "idle"
           /\ written' = written
           /\ stdout' = stdout
           /\ request_id' = request_id]_vars

IsMatch(line) == line.kind = "json" /\ line.id = request_id

\* C11: call_tool and list_tools on a session that is not initialized raise
\* MCPConnectionError in that very step: nothing is written, nothing is read
\* and the request id stays.
C11_UninitializedFailsFast ==
    [][((CallTool \/ ListTools) /\ ~initialized)
        => /\ result'.kind = "MCPConnectionError"
           /\ result'.response = NoLine
           /\ pc' = "idle"
           /\ written' = written
           /\ stdout' = stdout
           /\ request_id' = request_id
           /\ proc' = proc]_vars

\* list_tools was refused on an object whose start() failed and left the
\* handle of the dead child in place
C11_Witness ==
    /\ ~initialized
    /\ proc = "exited"
    /\ result = Res("list_tools", "MCPConnectionError", NoLine, {})

\* C12: a matching response with an error object whose message holds no
\* signature makes the call (call_tool, list_tools, _rpc) raise MCPServerError
\* with that line; authentication_failed, initialized and the handle stay.
C12_ServerErrorLeavesSession ==
    [][(/\ ReadLine
        /\ stdout # <<>>
        /\ op # "start"
        /\ IsMatch(Head(stdout))
        /\ Head(stdout).error = "object"
        /\ ~HasSignature(Head(stdout).message))
          => /\ result'.kind = "MCPServerError"
             /\ result'.response = Head(stdout)
             /\ pc' = "idle"
             /\ authentication_failed' = authentication_failed
             /\ initialized' = initialized
             /\ proc' = proc]_vars

\* a call ended with MCPServerError and the session is as it was: started,
\* initialized, the latch not set
C12_Witness ==
    /\ pc = "idle"
    /\ result.kind = "MCPServerError"
    /\ result.response.message = MsgRateLimit
    /\ initialized
    /\ ~authentication_failed
    /\ proc = "alive"

\* C13: MCPTimeoutError ends a waiting call only when the deadline has
\* passed and no line has resolved it, and it changes nothing of the session:
\* the handle, the child, initialized, the latch and the id counter stay.
C13_TimeoutAfterDeadlineFrame ==
    [][(result.kind = "pending" /\ result'.kind = "MCPTimeoutError")
        => /\ clock >= Timeout
           /\ result'.response = NoLine
           /\ result'.closing = <<>>
           /\ pc' = "idle"
           /\ proc' = proc
           /\ initialized' = initialized
           /\ authentication_failed' = authentication_failed
           /\ request_id' = request_id
           /\ written' = written]_vars

\* a tool call timed out and the child is still there, the session initialized
C13_Witness ==
    /\ pc = "idle"
    /\ result.op = "call_tool"
    /\ result.kind = "MCPTimeoutError"
    /\ proc = "alive"
    /\ initialized

\* C14 as claimed: a waiting call whose child exited before the deadline (the
\* call's readline returned end of file before it) ends with
\* MCPConnectionError, not with MCPTimeoutError.
C14_ExitNeverTimesOut ==
    [][(/\ result.kind = "pending"
        /\ result'.kind # "pending"
        /\ proc = "exited"
        /\ "eof_in_time" \in result.skipped)
          => result'.kind = "MCPConnectionError"]_vars

\* C14, amended: once the child has exited the call does not go on waiting
\* (with nothing left in the pipe its readline returns end of file and the
\* call is back at the loop test), and the loop test that follows ends the
\* call without a further read: with MCPConnectionError if the deadline has
\* not passed at that test, with MCPTimeoutError if it has
\* (MCPConnectionError either way inside start()).
C14_ExitSeenAtLoopTest ==
    /\ [](pc = "readline" /\ proc = "exited" /\ stdout = <<>>
            => ENABLED (ReadLine /\ pc' = "loop"))
    /\ [][(LoopHead /\ proc = "exited")
           => /\ pc' = "idle"
              /\ result'.response = NoLine
              /\ clock < Timeout => result'.kind = "MCPConnectionError"
              /\ (clock >= Timeout /\ op # "start") => result'.kind = "MCPTimeoutError"
              /\ (clock >= Timeout /\ op = "start") => result'.kind = "MCPConnectionError"]_vars

\* a tool call whose request was written ended with MCPConnectionError
\* because the child had exited
C14_Witness ==
    /\ pc = "idle"
    /\ result.op = "call_tool"
    /\ result.kind = "MCPConnectionError"
    /\ proc = "exited"
    /\ Len(written) > 0
    /\ written[Len(written)] = request_id

\* the step in which a start() that sent (or tried to send) its handshake ends
\* with an error
HandshakeFails ==
    \/ op = "start" /\ pc # "idle" /\ pc' = "idle" /\ result'.kind # "returned"
    \/ Start /\ request_id' # request_id /\ pc' = "idle"

\* C15: when the handshake of start() fails, close() has run by the time the
\* error reaches the caller: terminate() was called on the child, the handle
\* is None and initialized is false.
C15_FailedHandshakeCloses ==
    [][HandshakeFails
        => /\ result'.op = "start"
           /\ result'.kind \notin {"returned", "pending"}
           /\ result'.closing # <<>>
           /\ result'.closing[1] \in {"terminate", "terminate_raises"}
           /\ proc' = "None"
           /\ ~initialized']_vars

\* a start() whose handshake was answered with an error has closed
C15_Witness ==
    /\ result.op = "start"
    /\ result.kind = "MCPConnectionError"
    /\ result.response # NoLine
    /\ result.closing # <<>>
    /\ proc = "None"

\* C16: initialized implies a held handle; it becomes true only in the step
\* in which start() reads the error-free response to its handshake; close()
\* resets it together with the handle.
C16_InitializedOnlyByHandshake ==
    /\ [](initialized => proc # "None")
    /\ [][(~initialized /\ initialized')
           => /\ op = "start"
              /\ stdout # <<>>
              /\ IsMatch(Head(stdout))
              /\ Head(stdout).error = "absent"
              /\ result' = Res("start", "returned", Head(stdout), result.skipped)]_vars
    /\ [][Close => (~initialized' /\ proc' = "None")]_vars

\* an initialized session still holds its handle after the child has exited
C16_Witness == initialized /\ proc = "exited"

\* C17: the error kind _rpc raises is the kind the caller gets, on every
\* path, the handshake of start() included.
C17_ErrorKindsPropagate ==
    [][/\ (LoopHead /\ clock >= Timeout) => result'.kind = "MCPTimeoutError"
       /\ (LoopHead /\ clock < Timeout /\ proc = "exited")
            => result'.kind = "MCPConnectionError"
       /\ (/\ ReadLine
           /\ stdout # <<>>
           /\ IsMatch(Head(stdout))
           /\ Head(stdout).error = "object"
           /\ detect_authentication_error(Head(stdout).message))
            => result'.kind = "MCPAuthenticationError"]_vars

\* C18: close() returns normally whatever terminate, wait and kill did, with
\* the handle None and initialized false; on an object without a handle it
\* calls nothing and changes nothing.
C18_CloseNeverRaisesIdempotent ==
    [][Close
        => /\ result'.op = "close"
           /\ result'.kind = "returned"
           /\ proc' = "None"
           /\ ~initialized'
           /\ proc = "None"
                => /\ result'.closing = <<>>
                   /\ UNCHANGED <<initialized, authentication_failed, request_id,
                                  stdout, written>>]_vars

\* close() returned although the child was still there after kill and the
\* second wait
C18_Witness ==
    /\ result.op = "close"
    /\ result.kind = "returned"
    /\ result.closing = <<"terminate", "wait_timeout", "kill", "wait_timeout">>
    /\ proc = "None"
    /\ ~initialized

\* C19: a close() calls terminate first; kill only after the graceful wait
\* timed out, and then it waits once more; a child that exits within the
\* graceful wait is not killed.
C19_EscalationOrder ==
    LET c == result.closing
    IN  c # <<>>
        => /\ c[1] \in {"terminate", "terminate_raises"}
           /\ \A i \in 1..Len(c) :
                c[i] \in {"kill", "kill_raises"}
                    => /\ i = 3
                       /\ c[1] = "terminate"
                       /\ c[2] = "wait_timeout"
           /\ \A i \in 1..Len(c) :
                c[i] = "kill"
                    => /\ Len(c) = i + 1
                       /\ c[i + 1] \in {"wait_ok", "wait_timeout"}
           /\ (Len(c) >= 2 /\ c[2] = "wait_ok") => Len(c) = 2
           /\ (Len(c) >= 2 /\ c[2] = "wait_timeout")
                => (Len(c) >= 3 /\ c[3] \in {"kill", "kill_raises"})

\* a close() that had to kill: terminate, a wait that timed out, kill, a wait
C19_Witness ==
    /\ result.op = "close"
    /\ result.closing = <<"terminate", "wait_timeout", "kill", "wait_ok">>

\* C20: after a close() that dropped a handle the three pipes of the child
\* are closed, on every path.
C20_PipesClosedAfterClose ==
    (result.op = "close" /\ result.closing # <<>>)
        => /\ result.pipes = "closed"
           /\ proc = "None"

\* no text block of the content holds a signature of the specification
ContentClean(content) ==
    \A k \in 1..Len(content) :
        (content[k].isDict /\ content[k].hasText) => ~HasSignature(content[k].text)

\* C21: on a fresh object start() spawns the child and writes one request,
\* initialize with id 1, and is initialized once that request is answered
\* without error; start() on an object that holds a handle spawns and sends
\* nothing; the tool call that follows is written with id 2 as tools/call with
\* params {name, arguments}; and a call_tool whose response has no signature
\* in its content returns that response as it was read.
C21_StartThenFirstCall ==
    /\ [][(request_id = 0 /\ written' # written /\ Start)
           => /\ proc = "None"
              /\ proc' = "alive"
              /\ written' = <<1>>
              /\ rpc_request(result'.op, request_id').id = 1
              /\ rpc_request(result'.op, request_id').method = "initialize"]_vars
    /\ [][(op = "start" /\ pc # "idle")
           => /\ written' = written
              /\ (pc' = "idle" /\ result'.kind = "returned") => initialized']_vars
    /\ [][(pc = "idle" /\ proc # "None" /\ Start)
           => /\ result'.kind = "returned"
              /\ UNCHANGED <<proc, request_id, initialized, authentication_failed,
                             pc, stdout, written>>]_vars
    /\ [][(written = <<1>> /\ written' # written /\ CallTool)
           => /\ written' = <<1, 2>>
              /\ rpc_request(result'.op, request_id')
                    = [jsonrpc |-> "2.0", id |-> 2, method |-> "tools/call",
                       params |-> {"name", "arguments"}]]_vars
    /\ [][(/\ op = "call_tool"
           /\ pc = "readline"
           /\ stdout # <<>>
           /\ IsMatch(Head(stdout))
           /\ Head(stdout).error = "absent"
           /\ ContentClean(Head(stdout).content)
           /\ ReadLine)
            => /\ result'.kind = "returned"
               /\ result'.response = Head(stdout)]_vars

\* after a first start() the first tool call, written with id 2, returned the
\* response {"id": 2, "result": {"content": [{"text": "ok"}]}}
C21_Witness ==
    /\ written = <<1, 2>>
    /\ initialized
    /\ result = Res("call_tool", "returned", ResultLine(2, <<TextBlock(MsgOk)>>), {})

\* C22: with two callers on one session a line is taken for a caller's
\* response by the session's counter alone, never by the id that caller
\* wrote: whatever a caller returns carries the latest id issued at the
\* comparison.  So a caller can return the response to another caller's
\* request (C22_Witness), and a response whose id is no longer the latest is
\* dropped by whoever reads it, its own caller included.
C22_SharedCounterDecides ==
    [][\A c \in Callers :
          (callers[c].pc = "compare" /\ callers'[c].pc # "compare")
            => /\ callers'[c].kind = "returned"
                    => /\ callers'[c].got = request_id
                       /\ callers[c].line.id = request_id
               /\ (callers[c].line.id # request_id)
                    => /\ callers'[c].pc = "loop"
                       /\ callers'[c].kind = "none"]_vars

\* a caller returned a response whose id is not the id of the request it wrote
C22_Witness ==
    \E c \in Callers :
        /\ callers[c].kind = "returned"
        /\ callers[c].sent # 0
        /\ callers[c].got # callers[c].sent

\* a caller whose own response was read and dropped (by itself or by the
\* other caller) ended with the timeout
C22_WitnessDiscarded ==
    \E c \in Callers :
        /\ callers[c].kind = "MCPTimeoutError"
        /\ answered = Len(written)
        /\ stdout = <<>>
        /\ \A d \in Callers : callers[d].got # callers[c].sent /\ callers[d].line = NoLine

\* the values the lines assign to key, in the order of the lines
AssignedValues(lines, key) ==
    LET sel == SelectSeq(lines, LAMBDA l : parse_env_line(l).ok /\ parse_env_line(l).key = key)
    IN  [i \in 1..Len(sel) |-> parse_env_line(sel[i]).value]

\* C23: when the lines to save are computed (ensure_preserved_keys, then
\* inject_token_block; they are written as they are), every assignment of XERO_CLIENT_ID and of
\* XERO_CLIENT_SECRET that the file had still carries the value it had, the
\* assignments taken in the order of their lines.
C23_CredentialLinesKept ==
    tg_pc = "write"
        => \A key \in {ENV_KEY_ID, ENV_KEY_SECRET} :
              KeyLines(env_lines, key) # {}
                  => AssignedValues(final_lines, key) = AssignedValues(env_lines, key)

\* the value the file gives a credential key (the last assignment) is the
\* same before and after
Aux_C23_EffectiveValueKept ==
    tg_pc = "write"
        => \A key \in {ENV_KEY_ID, ENV_KEY_SECRET} :
              KeyLines(env_lines, key) # {}
                  => /\ KeyLines(final_lines, key) # {}
                     /\ last_value(final_lines, key) = last_value(env_lines, key)

\* C24: while write_env_atomic runs on an .env that existed, and after it,
\* the .env exists and holds the complete old or the complete new content;
\* from the backup step on the backup file holds the old content.
C24_EnvReplacedAtomically ==
    (tg_pc \in {"write_tmp", "write_chmod", "write_backup", "write_replace", "done"}
     /\ perm # NoPerm)
        => /\ env_file.exists
           /\ env_file.content \in {Join(env_lines), Join(final_lines)}
           /\ tg_pc \in {"write_replace", "done"}
                => /\ backup_file.exists
                   /\ backup_file.content = Join(env_lines)

\* the old content is in the backup at every step from the backup on, and
\* the new content in the .env once the operation is over
Aux_C24_BackupAndResult ==
    /\ (tg_pc \in {"write_replace", "done"} /\ perm # NoPerm)
            => /\ backup_file.exists
               /\ backup_file.content = Join(env_lines)
               /\ backup_file.mode = perm
    /\ tg_pc = "done"
            => /\ env_file.exists
               /\ env_file.content = Join(final_lines)
               /\ perm # NoPerm => env_file.mode = perm
               /\ ~tmp_file.exists

HeaderLines(lines) == {i \in 1..Len(lines) : startswith(lines[i], MetaPrefix)}

TokenLines(lines) == KeyLines(lines, ENV_KEY_TOKEN)

\* C25: the lines inject_token_block has returned hold exactly one header line,
\* directly above the first assignment of the token, which carries the new
\* token; the number of token assignments is the one of the input (one if the
\* input had none); and applied to its own output, with another token, it
\* returns as many lines, one header and as many token assignments again.
C25_HeaderIdempotent ==
    tg_pc = "write"
        => LET again == inject_token_block(final_lines, TokenOfRun(runs + 1),
                                           NowOfRun(runs + 1), NoValue)
               n == Cardinality(TokenLines(post_preserve))
           IN  /\ Cardinality(HeaderLines(final_lines)) = 1
               /\ \A h \in HeaderLines(final_lines) :
                     /\ h + 1 = Min(TokenLines(final_lines))
                     /\ parse_env_line(final_lines[h + 1]).value = access_token
               /\ Cardinality(TokenLines(final_lines)) = (IF n = 0 THEN 1 ELSE n)
               /\ Cardinality(HeaderLines(again)) = 1
               /\ Cardinality(TokenLines(again)) = Cardinality(TokenLines(final_lines))
               /\ Len(again) = Len(final_lines)

\* the second run has written the token into the lines the first run left:
\* there was a header, there is one header
C25_Witness ==
    /\ tg_pc = "write"
    /\ runs = 2
    /\ HeaderLines(post_preserve) # {}
    /\ TokenLines(post_preserve) # {}
    /\ Cardinality(HeaderLines(final_lines)) = 1

\* the calendar month k months before the month of d
MonthBefore(d, k) ==
    LET n == d.year * 12 + (d.month - 1) - k
    IN  [year |-> n \div 12, month |-> (n % 12) + 1]

\* that month, from its first to its last day
ExpectedRange(d, k) ==
    LET t == MonthBefore(d, k)
    IN  DateRange(Date(t.year, t.month, 1), Date(t.year, t.month, DaysIn(t.year, t.month)))

\* the requests issued so far are P&L requests for the months before today's, in order
RequestsInOrder ==
    \A k \in 1..Len(calls) :
        /\ calls[k].name = "list-profit-and-loss"
        /\ calls[k].arguments = ExpectedRange(today, k)

\* C26: a get_monthly_pl_summary that met no authentication error has ended
\* by returning, after exactly months_back P&L requests, the k-th for the
\* whole calendar month k months before today's; and an
\* export_combined_multi_month_pl that was not halted has left its loop after
\* the same requests.
C26_LastNMonthsFetched ==
    /\ (/\ tl_op = "get_monthly_pl_summary"
        /\ tl_pc = "done"
        /\ \A k \in 1..Len(results) : ~results[k].is_auth_error)
            => /\ tl_result = "returned"
               /\ Len(calls) = months_back
               /\ RequestsInOrder
    /\ (/\ tl_op = "export_combined_multi_month_pl"
        /\ tl_pc \in {"export_write", "done"}
        /\ tl_result # "AuthenticationFailureError")
            => /\ tl_result # "ValueError"
               /\ Len(calls) = months_back
               /\ RequestsInOrder

\* every request of the two loops is for the right month, whatever
\* months_back is; the loop ends with ValueError exactly at the iteration
\* i = month + 11 (target_month = 0), which a months_back of at most
\* month + 11 never reaches
Aux_C26_ValidUpToOneWrap ==
    tl_op \in {"get_monthly_pl_summary", "export_combined_multi_month_pl"}
        => /\ RequestsInOrder
           /\ tl_result = "ValueError"
                  => /\ loop_i = today.month + 11
                     /\ Len(calls) = loop_i
                     /\ months_back > loop_i
           /\ (months_back <= today.month + 11) => tl_result # "ValueError"

\* C27: in get_monthly_pl_summary every response has its request, there are
\* at most months_back of them, and a response with is_auth_error is the last
\* one: the function has ended with it.
C27_StopsAtFirstAuthError ==
    tl_op = "get_monthly_pl_summary"
        => /\ Len(results) <= months_back
           /\ Len(calls) = Len(results)
           /\ \A k \in 1..Len(results) :
                 results[k].is_auth_error
                     => /\ k = Len(results)
                        /\ tl_pc = "done"
                        /\ tl_result = "returned"

\* a summary of three months or more ended at its second response, an
\* authentication error after a month that was fetched
C27_Witness ==
    /\ tl_op = "get_monthly_pl_summary"
    /\ tl_pc = "done"
    /\ months_back >= 3
    /\ Len(results) = 2
    /\ results[1].success
    /\ results[2].is_auth_error

\* C28: in export_combined_multi_month_pl a fetch that raised
\* MCPAuthenticationError is the last one, the function has ended with
\* AuthenticationFailureError and no file is written; and a fetch that failed
\* otherwise, its response not flagged is_auth_error, did not end the function.
C28_HaltsOnlyOnAuthentication ==
    tl_op = "export_combined_multi_month_pl"
        => \A k \in 1..Len(calls) :
              /\ calls[k].kind = "MCPAuthenticationError"
                    => /\ k = Len(calls)
                       /\ tl_result = "AuthenticationFailureError"
                       /\ export_file = NoValue
              /\ (/\ calls[k].kind \notin {"returned", "MCPAuthenticationError"}
                  /\ ~results[k].is_auth_error)
                    => ~(k = Len(calls) /\ tl_result = "AuthenticationFailureError")

\* the part that holds: every MCPAuthenticationError halts the export, a
\* halted export has fetched nothing since and has written no file, and it
\* halts exactly on a failed response whose text has one of the six words
Aux_C28_AuthenticationHalts ==
    tl_op = "export_combined_multi_month_pl"
        => /\ Len(calls) = Len(results)
           /\ \A k \in 1..Len(calls) :
                 /\ calls[k].kind = "MCPAuthenticationError"
                       => /\ k = Len(calls)
                          /\ tl_result = "AuthenticationFailureError"
                 /\ halts(results[k])
                       => /\ k = Len(calls)
                          /\ tl_result = "AuthenticationFailureError"
           /\ tl_result = "AuthenticationFailureError"
                 => /\ export_file = NoValue
                    /\ tl_pc = "done"
                    /\ Len(results) > 0
                    /\ halts(results[Len(results)])

C29_WitnessDegraded ==
    /\ tl_op = "health_check"
    /\ tl_pc = "done"
    /\ Len(health_results.tests) = 2
    /\ ~health_results.tests[1].success
    /\ health_results.overall_status = "degraded"

\* the calls of get_organisation_details (alone, or as the first test of
\* health_check)
OrgCalls ==
    SelectSeq(calls, LAMBDA c : c.name \in {"list-organisation-details", "get-organisation"})

\* C30: get_organisation_details calls "list-organisation-details" first and
\* "get-organisation" second, the second if and only if the first raised an
\* MCPError other than MCPAuthenticationError; it makes at most two calls,
\* ends by returning, and its response has success exactly when one of the
\* calls returned.
C30_FallbackProtocol ==
    tl_op \in {"get_organisation_details", "health_check"}
        => LET oc == OrgCalls
               failed_other(c) == c.kind \notin {"returned", "MCPAuthenticationError"}
           IN  /\ Len(oc) <= 2
               /\ Len(oc) >= 1 => oc[1].name = "list-organisation-details"
               /\ Len(oc) = 2 => (oc[2].name = "get-organisation" /\ failed_other(oc[1]))
               /\ tl_pc = "org_primary" <=> Len(oc) = 0
               /\ tl_pc = "org_fallback" => (Len(oc) = 1 /\ failed_other(oc[1]))
               /\ tl_pc \notin {"org_primary", "org_fallback"}
                     => /\ Len(results) >= 1
                        /\ (Len(oc) = 2) <=> failed_other(oc[1])
                        /\ results[1].success <=> (\E k \in 1..Len(oc) : oc[k].kind = "returned")
               /\ tl_result \in {"none", "returned"}

\* the primary call failed without an authentication error and the fallback returned
C30_Witness ==
    /\ tl_op = "get_organisation_details"
    /\ tl_pc = "done"
    /\ Len(calls) = 2
    /\ calls[1].kind = "MCPServerError"
    /\ calls[2].kind = "returned"
    /\ results[1].success
    /\ results[1].tool_name = "get-organisation"

\* the primary call met an authentication error: it was the only call
C30_WitnessAuth ==
    /\ tl_op = "get_organisation_details"
    /\ tl_pc = "done"
    /\ Len(calls) = 1
    /\ calls[1].kind = "MCPAuthenticationError"
    /\ results[1].is_auth_error

\* C32: when the lines to save are computed by inject_token_block, the
\* mapping load_env_file computes from them (the last assignment of a key
\* wins) gives XERO_CLIENT_BEARER_TOKEN the new token.
C32_TokenRoundTrips ==
    tg_pc = "write"
        => /\ KeyLines(final_lines, ENV_KEY_TOKEN) # {}
           /\ last_value(final_lines, ENV_KEY_TOKEN) = access_token

\* the first assignment of the token key carries the new token, and the
\* round trip holds when the lines to save assign the key once
Aux_C32_FirstAssignmentIsNew ==
    tg_pc = "write"
        => /\ KeyLines(final_lines, ENV_KEY_TOKEN) # {}
           /\ AssignedValues(final_lines, ENV_KEY_TOKEN)[1] = access_token
           /\ Cardinality(KeyLines(final_lines, ENV_KEY_TOKEN)) = 1
                  => last_value(final_lines, ENV_KEY_TOKEN) = access_token

\* a step in which a start() ends: at once, or when its handshake is resolved
StartEnds ==
    \/ Start /\ pc' = "idle"
    \/ op = "start" /\ pc # "idle" /\ pc' = "idle"

\* C33: a start() that returns without raising leaves the session
\* initialized with a process handle held, whatever happened to the object
\* before; a start() that raises leaves no process handle.
C33_StartReturnsInitialized ==
    [][StartEnds
        => /\ result'.op = "start"
           /\ result'.kind = "returned" => (initialized' /\ proc' # "None")
           /\ result'.kind # "returned" => proc' = "None"]_vars

\* what holds of start(): called with no handle held it returns only
\* initialized, and it raises nothing but MCPConnectionError; the handle is
\* gone after a failed spawn or handshake
Aux_C33_FreshStart ==
    [][StartEnds
        => /\ result'.op = "start"
           /\ result'.kind \in {"returned", "MCPConnectionError"}
           /\ (result'.kind = "returned" /\ ~(Start /\ proc # "None"))
                 => (initialized' /\ proc' # "None")
           /\ (result'.kind # "returned" /\ ~(Start /\ proc' = "exited" /\ proc = "None"))
                 => (proc' = "None" /\ ~initialized')]_vars

\* C34: in the wait loop of _rpc the exit check comes before the read: a
\* loop iteration that begins (the deadline has not passed) with the child
\* exited ends the call with MCPConnectionError and reads nothing, whatever
\* is still in the output stream, the matching response included; a response
\* is delivered only by the read of an iteration that began with the child
\* alive.
C34_ExitCheckBeforeRead ==
    /\ [][(LoopHead /\ clock < Timeout /\ proc = "exited")
           => /\ pc' = "idle"
              /\ result'.kind = "MCPConnectionError"
              /\ result'.response = NoLine
              /\ result'.skipped = result.skipped
              /\ op # "start" => stdout' = stdout]_vars
    /\ [][(pc # "readline" /\ pc' = "readline")
           => (LoopHead /\ clock < Timeout /\ proc = "alive")]_vars
    /\ [][(result.kind = "pending" /\ result'.kind = "returned")
           => /\ pc = "readline"
              /\ stdout # <<>>
              /\ result'.response = Head(stdout)
              /\ stdout' = Tail(stdout)]_vars

\* a tool call ended with MCPConnectionError on the exited child while the
\* response to its request, written before the exit, is still unread
C34_Witness ==
    /\ pc = "idle"
    /\ result.op = "call_tool"
    /\ result.kind = "MCPConnectionError"
    /\ result.response = NoLine
    /\ proc = "exited"
    /\ written # <<>>
    /\ written[Len(written)] = request_id
    /\ stdout # <<>>
    /\ Head(stdout).kind = "json"
    /\ Head(stdout).id = request_id
    /\ Head(stdout).error = "absent"

C35_WitnessTimeout ==
    /\ pc = "idle"
    /\ result.op = "call_tool"
    /\ result.kind = "MCPTimeoutError"
    /\ "bad_error" \in result.skipped
    /\ ~authentication_failed

\* C31: a single-call wrapper (get_profit_and_loss, get_balance_sheet,
\* get_contacts, get_invoices) called by itself makes exactly one call_tool
\* call, of its own tool, and returns a XeroToolResponse whatever the call
\* did: success true and data the response when the call returned, success
\* false and data None when it raised; is_auth_error is true when the call
\* raised MCPAuthenticationError (the refusal of a latched session included)
\* and never true on a successful response; no error reaches the caller.
C31_SingleCallAlwaysReturns ==
    (tl_op \in SingleCallWrappers /\ tl_pc = "done")
        => /\ tl_result = "returned"
           /\ Len(calls) = 1
           /\ Len(results) = 1
           /\ LET c == calls[1]
                  r == results[1]
              IN  /\ c.name = wrapper_tool(tl_op)
                  /\ r.tool_name = c.name
                  /\ r.success <=> c.kind = "returned"
                  /\ r.success => (r.data = c.response /\ r.data # NoLine /\ ~r.is_auth_error)
                  /\ ~r.success => (r.data = NoLine)
                  /\ c.kind = "MCPAuthenticationError" => r.is_auth_error
                  /\ r.error_message = MsgPreviousAuth => (r.is_auth_error /\ authentication_failed)

\* get_contacts on a latched session: the refusal of call_tool came back as
\* a failed response marked as an authentication error
C31_Witness ==
    /\ tl_op = "get_contacts"
    /\ tl_pc = "done"
    /\ calls[1].kind = "MCPAuthenticationError"
    /\ results[1].error_message = MsgPreviousAuth
    /\ results[1].is_auth_error
    /\ results[1].data = NoLine

\* get_invoices returned a response other than the plain one as its data
C31_WitnessData ==
    /\ tl_op = "get_invoices"
    /\ tl_pc = "done"
    /\ results[1].success
    /\ results[1].data = ResultLine(1, <<TextBlock(MsgTokenHasExpired)>>)

\* get_balance_sheet turned a timeout into a failed response that is no
\* authentication error
C31_WitnessTimeout ==
    /\ tl_op = "get_balance_sheet"
    /\ tl_pc = "done"
    /\ calls[1].kind = "MCPTimeoutError"
    /\ ~results[1].success
    /\ ~results[1].is_auth_error

====
